---- MODULE Spec2Model ----
(***************************************************************************)
(* A model of the simple-kv server: the topic broadcaster                  *)
(* (src/service/topic.rs), the pub/sub and storage command services, the   *)
(* command dispatcher (src/service/mod.rs), the in-memory store            *)
(* (src/storage/memory.rs) and the frame codec (src/network/frame.rs).     *)
(*                                                                         *)
(* The specifications share the variables:                                 *)
(*   SpecTopic    the Broadcaster driven through the Topic trait, the way  *)
(*                the unit test pub_sub_should_work drives it (the caller  *)
(*                keeps the receiver);                                     *)
(*   SpecService  the Broadcaster driven through Service::execute, the     *)
(*                only way the server reaches it;                          *)
(*   SpecKV       the storage commands executed by Service::execute;       *)
(*   SpecKVFault  the same over a store whose calls can return an error;   *)
(*   SpecInvalid  one connection mixing pub/sub commands with a request    *)
(*                that carries no command;                                 *)
(*   SpecHooks    Service::execute with registered event hooks;            *)
(*   SpecFrame    encode_frame followed by decode_frame on one buffer;     *)
(*   SpecStore    the Storage trait on MemTable and its clones;            *)
(*   SpecClient   ProstStream read by a client from a peer's bytes;        *)
(*   SpecServer   ProstServerStream::process on one connection;            *)
(*   SpecRead     ProstStream::poll_next over bytes arriving in parts;     *)
(*   SpecSink     the Sink of ProstStream: start_send, poll_flush,         *)
(*                poll_close over a stream that may not take all bytes;    *)
(*   SpecSled     the Storage trait on SledDb, beside MemTable;            *)
(*   SpecLin      clones of one Service executing on the shared store;     *)
(*   SpecSres     StreamResult::new on a stream of responses.              *)
(*                                                                         *)
(* Concurrency.  The server runs on the multi-threaded tokio runtime       *)
(* (#[tokio::main]), so calls made by different connection tasks and the   *)
(* tasks spawned by subscribe and publish interleave at every operation on *)
(* the shared DashMaps and channels.  A DashMap operation is atomic; a     *)
(* reference returned by entry/get/get_mut keeps its shard locked until it *)
(* is dropped.  The model locks per key (every key in a shard of its own). *)
(***************************************************************************)
EXTENDS Integers, Sequences, FiniteSets, TLC

\* ---------------------------------------------------------------- bounds
\* subscribe calls in one behaviour
MaxSubs == 2
\* publish calls in one behaviour
MaxPubs == 2
\* calls of subscribe, unsubscribe and publish in one behaviour
MaxCalls == 3
\* capacity of a subscriber's channel: stands for BROADCAST_CAPACITY (128,
\* topic.rs:12), scaled down so that a full queue is reachable
QueueCap == 1

Callers == {"c1", "c2"}
TopicNames == {"lobby", "news"}
IdRange == 1..MaxSubs

\* ---------------------------------------------------------------- values
\* pb::abi::Value, a oneof; the default Value has no variant set (null)
Null == [t |-> "null", v |-> 0]
Integer(i) == [t |-> "int", v |-> i]
\* the string "m<n>"
Str(n) == [t |-> "str", v |-> n]
Bool(b) == [t |-> "bool", v |-> IF b THEN 1 ELSE 0]

\* CommandResponse::default()
DefaultResponse == [status |-> 0, message |-> <<>>, values |-> <<>>, pairs |-> <<>>]
\* CommandResponse::ok()
OkResponse == [DefaultResponse EXCEPT !.status = 200]
\* impl From<Value> for CommandResponse
FromValue(v) == [DefaultResponse EXCEPT !.status = 200, !.values = <<v>>]
\* impl From<Vec<Value>> for CommandResponse
FromValues(vs) == [DefaultResponse EXCEPT !.status = 200, !.values = vs]
\* impl From<Vec<KvPair>> for CommandResponse
FromPairs(ps) == [DefaultResponse EXCEPT !.status = 200, !.pairs = ps]

\* ------------------------------------------------------------- storage
TableNames == {"t1", "t2"}
Keys == {"k1", "k2"}
\* the values a client stores
KvValues == {Integer(10), Str(1)}
\* longest key or pair list of a request
MaxList == 2

\* Option<T>
None == [some |-> FALSE, val |-> Null]
Some(v) == [some |-> TRUE, val |-> v]
\* Option::unwrap_or_default
UnwrapOrDefault(o) == IF o.some THEN o.val ELSE Null

\* DashMap as a function with a changing domain
EmptyMap == [x \in {} |-> Null]
MapPut(m, k, v) == [x \in (DOMAIN m) \cup {k} |-> IF x = k THEN v ELSE m[x]]
MapDel(m, k) == [x \in (DOMAIN m) \ {k} |-> m[x]]

\* MemTable::get_or_create_table: every access creates the table
get_or_create_table(tbl, t) ==
    IF t \in DOMAIN tbl THEN tbl ELSE MapPut(tbl, t, EmptyMap)

\* impl Storage for MemTable; each returns the store after the call and the
\* Ok(..) result (MemTable never returns Err)
MemGet(tbl, t, k) ==
    LET tb == get_or_create_table(tbl, t)
    IN  [tables |-> tb,
         res |-> IF k \in DOMAIN tb[t] THEN Some(tb[t][k]) ELSE None]

MemSetKeepsOld(tbl, t, k, v) ==
    LET tb == get_or_create_table(tbl, t)
    IN  [tables |-> IF k \in DOMAIN tb[t] THEN tb
                    ELSE [tb EXCEPT ![t] = MapPut(@, k, v)],
         res |-> IF k \in DOMAIN tb[t] THEN Some(tb[t][k]) ELSE None]
MemSetReportsNone(tbl, t, k, v) ==
    LET tb == get_or_create_table(tbl, t)
    IN  [tables |-> [tb EXCEPT ![t] = MapPut(@, k, v)], res |-> None]
MemSet(tbl, t, k, v) ==
    LET tb == get_or_create_table(tbl, t)
    IN  [tables |-> [tb EXCEPT ![t] = MapPut(@, k, v)],
         res |-> IF k \in DOMAIN tb[t] THEN Some(tb[t][k]) ELSE None]

MemContainsAfterCreate(tbl, t, k) ==
    LET tb == get_or_create_table(tbl, t)
    IN  [tables |-> tb, res |-> t \in DOMAIN tb]
MemContains(tbl, t, k) ==
    LET tb == get_or_create_table(tbl, t)
    IN  [tables |-> tb, res |-> k \in DOMAIN tb[t]]

MemDelKeepsKey(tbl, t, k) ==
    LET tb == get_or_create_table(tbl, t)
    IN  [tables |-> tb,
         res |-> IF k \in DOMAIN tb[t] THEN Some(tb[t][k]) ELSE None]
MemDel(tbl, t, k) ==
    LET tb == get_or_create_table(tbl, t)
    IN  [tables |-> [tb EXCEPT ![t] = MapDel(@, k)],
         res |-> IF k \in DOMAIN tb[t] THEN Some(tb[t][k]) ELSE None]

\* KvPair::new
KvPair(k, v) == [key |-> k, value |-> Some(v)]

\* the pairs of ord's keys that table t holds, in ord's order (DashMap
\* iterates in an order of its own: ord is that order)
RECURSIVE PairsInOrder(_, _)
PairsInOrder(m, ord) ==
    IF ord = <<>> THEN <<>>
    ELSE (IF Head(ord) \in DOMAIN m
          THEN <<KvPair(Head(ord), m[Head(ord)])>> ELSE <<>>)
         \o PairsInOrder(m, Tail(ord))

MemGetAll(tbl, t, ord) ==
    LET tb == get_or_create_table(tbl, t)
    IN  [tables |-> tb, res |-> PairsInOrder(tb[t], ord)]

\* ----------------------------------------------------- command services
\* KvError::NotFound(table, key).to_string()
NotFoundMessage(t, k) == <<"Not found", t, k>>
\* impl From<KvError> for CommandResponse, for KvError::NotFound
FromNotFound(t, k) ==
    [DefaultResponse EXCEPT !.status = 404, !.message = NotFoundMessage(t, k)]
\* impl From<KvError> for CommandResponse, for KvError::InvalidCommand
FromInvalidCommandAsDefault(text) == DefaultResponse
FromInvalidCommand(text) ==
    [DefaultResponse EXCEPT !.status = 400, !.message = <<"Invalid command", text>>]

\* each execute returns the store after the call and the response
HgetExecuteNullForMissing(req, tbl) ==
    LET r == MemGet(tbl, req.table, req.key)
    IN  [tables |-> r.tables, resp |-> FromValue(UnwrapOrDefault(r.res))]
HgetExecute(req, tbl) ==
    LET r == MemGet(tbl, req.table, req.key)
    IN  [tables |-> r.tables,
         resp |-> IF r.res.some THEN FromValue(r.res.val)
                  ELSE FromNotFound(req.table, req.key)]

HsetExecute(req, tbl) ==
    IF req.pair.some
    THEN LET r == MemSet(tbl, req.table, req.pair.val.key,
                         UnwrapOrDefault(req.pair.val.value))
         IN  [tables |-> r.tables,
              resp |-> IF r.res.some THEN FromValue(r.res.val) ELSE FromValue(Null)]
    ELSE [tables |-> tbl, resp |-> FromValue(Null)]

HgetallExecute(req, tbl, ord) ==
    LET r == MemGetAll(tbl, req.table, ord)
    IN  [tables |-> r.tables, resp |-> FromPairs(r.res)]

RECURSIVE HmgetRunSkipsMissing(_, _, _)
HmgetRunSkipsMissing(tbl, t, keys) ==
    IF keys = <<>> THEN [tables |-> tbl, values |-> <<>>]
    ELSE LET r == MemGet(tbl, t, Head(keys))
             rest == HmgetRunSkipsMissing(r.tables, t, Tail(keys))
         IN  [tables |-> rest.tables,
              values |-> (IF r.res.some THEN <<r.res.val>> ELSE <<>>) \o rest.values]
RECURSIVE HmgetRun(_, _, _)
HmgetRun(tbl, t, keys) ==
    IF keys = <<>> THEN [tables |-> tbl, values |-> <<>>]
    ELSE LET r == MemGet(tbl, t, Head(keys))
             rest == HmgetRun(r.tables, t, Tail(keys))
         IN  [tables |-> rest.tables,
              values |-> <<UnwrapOrDefault(r.res)>> \o rest.values]

HmgetExecute(req, tbl) ==
    LET r == HmgetRun(tbl, req.table, req.keys)
    IN  [tables |-> r.tables, resp |-> FromValues(r.values)]

RECURSIVE HmsetRunTailFirst(_, _, _)
HmsetRunTailFirst(tbl, t, pairs) ==
    IF pairs = <<>> THEN [tables |-> tbl, values |-> <<>>]
    ELSE LET rest == HmsetRunTailFirst(tbl, t, Tail(pairs))
             r == MemSet(rest.tables, t, Head(pairs).key,
                         UnwrapOrDefault(Head(pairs).value))
         IN  [tables |-> r.tables,
              values |-> <<UnwrapOrDefault(r.res)>> \o rest.values]
RECURSIVE HmsetRun(_, _, _)
HmsetRun(tbl, t, pairs) ==
    IF pairs = <<>> THEN [tables |-> tbl, values |-> <<>>]
    ELSE LET r == MemSet(tbl, t, Head(pairs).key, UnwrapOrDefault(Head(pairs).value))
             rest == HmsetRun(r.tables, t, Tail(pairs))
         IN  [tables |-> rest.tables,
              values |-> <<UnwrapOrDefault(r.res)>> \o rest.values]

HmsetExecute(req, tbl) ==
    LET r == HmsetRun(tbl, req.table, req.pairs)
    IN  [tables |-> r.tables, resp |-> FromValues(r.values)]

HdelExecute(req, tbl) ==
    LET r == MemDel(tbl, req.table, req.key)
    IN  [tables |-> r.tables, resp |-> FromValue(UnwrapOrDefault(r.res))]

RECURSIVE HmdelRun(_, _, _)
HmdelRun(tbl, t, keys) ==
    IF keys = <<>> THEN [tables |-> tbl, values |-> <<>>]
    ELSE LET r == MemDel(tbl, t, Head(keys))
             rest == HmdelRun(r.tables, t, Tail(keys))
         IN  [tables |-> rest.tables,
              values |-> <<UnwrapOrDefault(r.res)>> \o rest.values]

HmdelExecute(req, tbl) ==
    LET r == HmdelRun(tbl, req.table, req.keys)
    IN  [tables |-> r.tables, resp |-> FromValues(r.values)]

HexistExecute(req, tbl) ==
    LET r == MemContains(tbl, req.table, req.key)
    IN  [tables |-> r.tables, resp |-> FromValue(Bool(r.res))]

RECURSIVE HmexistRun(_, _, _)
HmexistRun(tbl, t, keys) ==
    IF keys = <<>> THEN [tables |-> tbl, values |-> <<>>]
    ELSE LET r == MemContains(tbl, t, Head(keys))
             rest == HmexistRun(r.tables, t, Tail(keys))
         IN  [tables |-> rest.tables,
              values |-> <<Bool(r.res)>> \o rest.values]

HmexistExecute(req, tbl) ==
    LET r == HmexistRun(tbl, req.table, req.keys)
    IN  [tables |-> r.tables, resp |-> FromValues(r.values)]

\* service::dispatch; a request with no variant set has kind "None"
dispatch(req, tbl, ord) ==
    CASE req.kind = "Hget" -> HgetExecute(req, tbl)
      [] req.kind = "Hgetall" -> HgetallExecute(req, tbl, ord)
      [] req.kind = "Hmget" -> HmgetExecute(req, tbl)
      [] req.kind = "Hset" -> HsetExecute(req, tbl)
      [] req.kind = "Hmset" -> HmsetExecute(req, tbl)
      [] req.kind = "Hdel" -> HdelExecute(req, tbl)
      [] req.kind = "Hmdel" -> HmdelExecute(req, tbl)
      [] req.kind = "Hexist" -> HexistExecute(req, tbl)
      [] req.kind = "Hmexist" -> HmexistExecute(req, tbl)
      [] req.kind = "None" ->
            [tables |-> tbl, resp |-> FromInvalidCommand("invalid command")]
      [] OTHER -> [tables |-> tbl, resp |-> DefaultResponse]

\* KvError::StorageError(..).to_string()
StorageErrorMessage == <<"Storage error">>
\* impl From<KvError> for CommandResponse, for an error that is neither
\* NotFound nor InvalidCommand
FromStorageError ==
    [DefaultResponse EXCEPT !.status = 500, !.message = StorageErrorMessage]

\* the values map(..).collect() yields when every call returns Err: the
\* arm `_ => Value::default()` for each element
NullForEach(list) == [i \in 1..Len(list) |-> Null]

\* service::dispatch on a store whose calls all return
\* Err(KvError::StorageError): the Err arm of each execute
dispatchOnError(req) ==
    CASE req.kind = "Hget" -> FromStorageError
      [] req.kind = "Hgetall" -> FromStorageError
      [] req.kind = "Hmget" -> FromValues(NullForEach(req.keys))
      [] req.kind = "Hset" ->
            IF req.pair.some THEN FromStorageError ELSE FromValue(Null)
      [] req.kind = "Hmset" -> FromValues(NullForEach(req.pairs))
      [] req.kind = "Hdel" -> FromValue(Null)
      [] req.kind = "Hmdel" -> FromValues(NullForEach(req.keys))
      [] req.kind = "Hexist" -> FromStorageError
      [] req.kind = "Hmexist" -> FromValues(NullForEach(req.keys))
      [] req.kind = "None" -> FromInvalidCommand("invalid command")
      [] OTHER -> DefaultResponse

\* a response stream: it yields items, then what the receiver of channel rx
\* yields (rx = 0: nothing more)
StreamOnce(r) == [items |-> <<r>>, rx |-> 0]
ReceiverStream(id) == [items |-> <<>>, rx |-> id]

VARIABLES
    \* Broadcaster.topics: topic name -> set of subscription ids
    topics,
    \* Broadcaster.subscriptions: the ids that have a Sender stored (the Sender
    \* stored under id is the one of channel id)
    subscriptions,
    \* static NEXT_ID
    NEXT_ID,
    \* the mpsc channels, by subscription id
    chan,
    \* the task subscribe spawns to send the id, by subscription id
    idTask,
    \* the tasks publish spawns, in the order of the publish calls
    pub,
    \* the call each caller is in
    call,
    \* what each caller's last Service::execute returned
    ret,
    \* history: the calls made so far
    ncalls,
    \* history: the ids in allocation order
    allocated,
    \* history: (topic, id) of the unsubscribe calls that have returned, the id
    \* having been allocated when the call was made
    unsubDone,
    \* history: the publish tasks in the order they took their snapshot
    snapSeq,
    \* history: the ids a publish failed to enqueue for (receiver dropped)
    sendFailed,
    \* MemTable.tables: table name -> key -> Value
    tables,
    \* history: the last storage request executed and the stream returned
    kvLast,
    \* history: the store before the last storage request
    kvBefore,
    \* history: per (table, key), the value of the last Hset not followed by
    \* another write to that key
    lastSet,
    \* history: the storage engine returned Err to the calls of the last
    \* storage request
    kvErr,
    \* ServiceInner.on_received, on_executed, on_before_send, on_after_send:
    \* the hooks registered, by name, in registration order
    hooks,
    \* history: the hooks the last storage request fired, in firing order,
    \* each with the argument it was given
    hookLog,
    \* the BytesMut a frame is encoded into and decoded from
    fbuf,
    \* history: the message last given to encode_frame and what it returned
    fenc,
    \* history: what the last decode_frame returned
    fdec,
    \* MemTable handles: the tables each one owns
    mem,
    \* history: the reference map of each handle
    refmap,
    \* history: the last call of the Storage trait, its result and the
    \* reference's
    stLast,
    \* the iterator returned by get_iter
    iter,
    \* calls of the Storage trait made so far
    stCalls,
    \* per logical stream: bytes written by the peer and not yet read
    inb,
    \* per stream: the peer has closed its writing half
    peerClosed,
    \* frames the peers have written
    written,
    \* per stream: ProstStream::read_buf
    read_buf,
    \* history, per stream: how the last pull ended and the read_buf it found
    lastPull,
    \* per stream: where its handler is
    pc,
    \* per stream: the request being processed
    request,
    \* per stream: the elements of the response stream not sent yet
    respq,
    \* history, per stream: the responses written and flushed, each with the
    \* number of the request it answers
    flushed,
    \* history, per stream: requests read
    nread,
    \* per stream: the peer has reset the stream
    reset,
    \* the task that polls the handlers of the connection's streams
    conn,
    \* bytes the peer of stream s1 has written that the transport has not
    \* delivered to the reading end yet
    wire,
    \* history: the messages whose frames the peer wrote, in order
    sentMsgs,
    \* history: the items the pulls on the framed stream yielded, in order
    pulled,
    \* ProstStream::write_buf of a stream used as a Sink
    write_buf,
    \* ProstStream::written: bytes of write_buf the underlying stream has taken
    wbWritten,
    \* poll_shutdown has been called on the underlying stream and was ready
    shutdown,
    \* history: the messages given to start_send
    fed,
    \* history: the last call on the Sink, what it found and what it did
    sinkLast,
    \* history: the ids whose unsubscribe has returned, the call having been
    \* made when subscribe had stored the id's Sender (and so had returned or
    \* was about to)
    unsubStored,
    \* SledDb: the sled tree, full key -> value
    sled,
    \* a MemTable given the same calls as the SledDb
    sledMem,
    \* history: the last call made on both engines, the engines before it and
    \* what each returned
    sledLast,
    \* the tasks that call execute on clones of one Service: where each is,
    \* its request, the response it got, and (history) the tasks that had
    \* returned when it made its call
    linTask,
    \* the stream handed to StreamResult::new, what new returned and the items
    \* taken from the StreamResult since
    sres

topicVars == <<topics, subscriptions, NEXT_ID, chan, idTask, pub, call, ret, ncalls,
               allocated, unsubDone, snapSeq, sendFailed>>
kvVars == <<tables, kvLast, kvBefore, lastSet, kvErr, hooks, hookLog>>
frameVars == <<fbuf, fenc, fdec>>
storeVars == <<mem, refmap, stLast, iter, stCalls>>
streamVars == <<inb, peerClosed, written, read_buf, lastPull, pc, request, respq, flushed, nread,
                reset, conn>>
readVars == <<wire, sentMsgs, pulled>>
sinkVars == <<write_buf, wbWritten, shutdown, fed, sinkLast>>
sledVars == <<sled, sledMem, sledLast>>
\* the variables of the other parts, for the actions of each part
notRead == <<sinkVars, sledVars, unsubStored, linTask, sres>>
notSink == <<readVars, sledVars, unsubStored, linTask, sres>>
notSled == <<readVars, sinkVars, unsubStored, linTask, sres>>
notUnsub == <<readVars, sinkVars, sledVars, linTask, sres>>
notLin == <<readVars, sinkVars, sledVars, unsubStored, sres>>
notSres == <<readVars, sinkVars, sledVars, unsubStored, linTask>>
extVars == <<notUnsub, unsubStored>>
vars == <<topicVars, kvVars, frameVars, storeVars, streamVars, extVars>>

\* ------------------------------------------------------------- channels
\* mpsc::channel(BROADCAST_CAPACITY): log holds every item pushed, the first
\* nread of them have been received; waiters are the senders queued for a
\* permit, first come first served (0 is the id task, p > 0 publish task p)
NoChannel == [log |-> <<>>, nread |-> 0, rx |-> "none", waiters |-> <<>>]
NewChannel == [NoChannel EXCEPT !.rx = "open"]

\* the senders that were handed a permit while waiting and have not pushed yet
Granted(id) ==
    Cardinality({p \in 1..Len(pub) : pub[p].st = "granted" /\ pub[p].cur = id})
        + (IF idTask[id] = "granted" THEN 1 ELSE 0)

\* permits left in the channel's semaphore
Available(id) ==
    QueueCap - (Len(chan[id].log) - chan[id].nread) - Granted(id)

\* what Sender::send does at once: "err" (receiver dropped), "push" (a permit
\* is free) or "wait" (the queue is full: the sender queues for a permit)
SendOutcome(id) ==
    IF chan[id].rx # "open" THEN "err"
    ELSE IF Available(id) > 0 THEN "push"
    ELSE "wait"

Push(ch, id, item) == [ch EXCEPT ![id].log = Append(@, item)]
Enqueue(ch, id, who) == [ch EXCEPT ![id].waiters = Append(@, who)]

\* the response subscribe sends first: (id as i64).into()
IdResponse(id) == FromValue(Integer(id))
\* the response publish p sends: its data, here the one string "m<p>"
PubResponse(p) == FromValues(<<Str(p)>>)

\* ---------------------------------------------------------------- locks
\* a publish task keeps the Ref from topics.get(&name) for the whole loop
TopicsGuardHeld(name) ==
    \E p \in 1..Len(pub) :
        pub[p].topic = name /\ pub[p].st \in {"loop", "wait", "granted"}

\* and the Ref from subscriptions.get(&id) across sender.send(..).await
SubGuardHeld(id) ==
    \E p \in 1..Len(pub) :
        pub[p].cur = id /\ pub[p].st \in {"wait", "granted"}

\* ---------------------------------------------------------- broadcaster
\* get_next_subscription_id: NEXT_ID.fetch_add(1) leaves the counter at n + 1
\* (an AtomicU32: it wraps at 2^32, far beyond MaxSubs allocations)
FetchAddStuck(n) == n
FetchAdd(n) == n + 1

\* subscribe, lines 42-47: topics.entry(name).or_default() and insert(id),
\* under the entry's lock
TopicsInsert(tp, name, id) ==
    IF name \in DOMAIN tp THEN [tp EXCEPT ![name] = @ \cup {id}]
    ELSE MapPut(tp, name, {id})

\* unsubscribe, lines 70-74: get_mut(&name), v.remove(&id) and v.is_empty(),
\* under the lock of get_mut: the map afterwards, and whether the topic is
\* to be removed
UnsubscribeTopicEntryKeepsId(tp, name, id) ==
    [topics |-> tp, emptied |-> name \in DOMAIN tp /\ tp[name] = {}]
UnsubscribeTopicEntryChecksFirst(tp, name, id) ==
    [topics |-> IF name \in DOMAIN tp THEN [tp EXCEPT ![name] = @ \ {id}] ELSE tp,
     emptied |-> name \in DOMAIN tp /\ tp[name] = {}]
UnsubscribeTopicEntry(tp, name, id) ==
    [topics |-> IF name \in DOMAIN tp THEN [tp EXCEPT ![name] = @ \ {id}] ELSE tp,
     emptied |-> name \in DOMAIN tp /\ tp[name] \ {id} = {}]

\* unsubscribe, line 77: topics.remove(&name)
TopicsRemove(tp, name) == MapDel(tp, name)

SubscriptionsRemoveKeepsSender(sb, id) == sb
\* unsubscribe, line 83: subscriptions.remove(&id)
SubscriptionsRemove(sb, id) == sb \ {id}

\* unsubscribe(name, id) run alone, start to end
UnsubscribeSeq(tp, sb, name, id) ==
    LET e == UnsubscribeTopicEntry(tp, name, id)
        t2 == IF e.emptied THEN TopicsRemove(e.topics, name) ELSE e.topics
    IN  [topics |-> t2, subscriptions |-> SubscriptionsRemove(sb, id)]

Idle == [pc |-> "idle", via |-> "none", topic |-> "none", id |-> 0, known |-> FALSE]
NoRet == [kind |-> "none", id |-> 0, stream |-> [items |-> <<>>, rx |-> 0]]

\* Service::execute, line 84: the stream returned holds the one response
\* that dispatch produced (no hook is registered)
ServiceReturn(response) == StreamOnce(response)

\* service::dispatch_stream and the TopicService impls: the stream each
\* builds (Subscribe: the stream of the receiver of subscription id)
dispatch_stream(req, id) ==
    IF req.kind = "Subscribe" THEN ReceiverStream(id) ELSE StreamOnce(OkResponse)

\* Service::execute for a pub/sub request, lines 72-84: dispatch answers the
\* default response; dispatch_stream is called for its effect on the
\* broadcaster and the stream it returns is dropped; the stream returned is
\* the one of the dispatch response
ServiceStream(req) == ServiceReturn(dispatch(req, tables, <<>>).resp)

\* what the call returns to its caller
Returned(via, req, id) ==
    IF via = "service"
    THEN [kind |-> req.kind, id |-> id, stream |-> ServiceStream(req)]
    ELSE NoRet

\* the receiver of channel id is dropped: the channel closes and the senders
\* waiting for a permit are woken with an error
CloseReceiver(ch, id) == [ch EXCEPT ![id].rx = "dropped", ![id].waiters = <<>>]

\* subscribe, lines 42-47
SubscribeEntry(c, name, via) ==
    /\ call[c].pc = "idle"
    /\ Len(allocated) < MaxSubs
    /\ ncalls < MaxCalls
    /\ ncalls' = ncalls + 1
    /\ ~TopicsGuardHeld(name)
    /\ LET id == NEXT_ID
       IN  /\ NEXT_ID' = FetchAdd(NEXT_ID)
           /\ topics' = TopicsInsert(topics, name, id)
           /\ allocated' = Append(allocated, id)
           /\ call' = [call EXCEPT ![c] = [pc |-> "sub_insert", via |-> via,
                                           topic |-> name, id |-> id, known |-> FALSE]]
    /\ UNCHANGED <<kvVars, frameVars, storeVars, streamVars, extVars>>
    /\ UNCHANGED <<subscriptions, chan, idTask, pub, ret, unsubDone, snapSeq, sendFailed>>

\* subscribe, lines 50-66: the channel, the spawned id task, the sender
\* stored; the caller has the receiver
SubscribeInsert(c) ==
    /\ call[c].pc = "sub_insert"
    /\ ~SubGuardHeld(call[c].id)
    /\ LET id == call[c].id
       IN  /\ chan' = [chan EXCEPT ![id] = NewChannel]
           /\ idTask' = [idTask EXCEPT ![id] = "spawned"]
           /\ subscriptions' = subscriptions \cup {id}
    /\ call' = [call EXCEPT ![c] = IF call[c].via = "service"
                                   THEN [@ EXCEPT !.pc = "sub_drop"] ELSE Idle]
    /\ UNCHANGED <<kvVars, frameVars, storeVars, streamVars, extVars>>
    /\ UNCHANGED <<ncalls, topics, NEXT_ID, pub, ret, allocated, unsubDone, snapSeq, sendFailed>>

\* Service::execute, line 75: the stream dispatch_stream returned (the
\* receiver) is dropped; line 84: the stream of the dispatch response
ServiceDropReceiver(c) ==
    /\ call[c].pc = "sub_drop"
    /\ chan' = CloseReceiver(chan, call[c].id)
    /\ ret' = [ret EXCEPT ![c] =
                  Returned("service", [kind |-> "Subscribe", topic |-> call[c].topic],
                           call[c].id)]
    /\ call' = [call EXCEPT ![c] = Idle]
    /\ UNCHANGED <<kvVars, frameVars, storeVars, streamVars, extVars>>
    /\ UNCHANGED <<ncalls, topics, subscriptions, NEXT_ID, idTask, pub, allocated,
                   unsubDone, snapSeq, sendFailed>>

\* unsubscribe, lines 70-74
UnsubscribeEntry(c, name, id, via) ==
    /\ call[c].pc = "idle"
    /\ ncalls < MaxCalls
    /\ ncalls' = ncalls + 1
    /\ ~TopicsGuardHeld(name)
    /\ topics' = UnsubscribeTopicEntry(topics, name, id).topics
    /\ call' = [call EXCEPT ![c] =
                   [pc |-> IF UnsubscribeTopicEntry(topics, name, id).emptied
                           THEN "unsub_topic" ELSE "unsub_subs",
                    via |-> via, topic |-> name, id |-> id,
                    known |-> id < NEXT_ID, stored |-> id \in subscriptions]]
    /\ UNCHANGED <<kvVars, frameVars, storeVars, streamVars, extVars>>
    /\ UNCHANGED <<subscriptions, NEXT_ID, chan, idTask, pub, ret, allocated,
                   unsubDone, snapSeq, sendFailed>>

\* unsubscribe, lines 75-77: the guard is dropped, then topics.remove
UnsubscribeRemoveTopic(c) ==
    /\ call[c].pc = "unsub_topic"
    /\ ~TopicsGuardHeld(call[c].topic)
    /\ topics' = TopicsRemove(topics, call[c].topic)
    /\ call' = [call EXCEPT ![c].pc = "unsub_subs"]
    /\ UNCHANGED <<kvVars, frameVars, storeVars, streamVars, extVars>>
    /\ UNCHANGED <<ncalls, subscriptions, NEXT_ID, chan, idTask, pub, ret, allocated,
                   unsubDone, snapSeq, sendFailed>>

\* unsubscribe, line 83, and the return
UnsubscribeRemoveSub(c) ==
    /\ call[c].pc = "unsub_subs"
    /\ ~SubGuardHeld(call[c].id)
    /\ subscriptions' = SubscriptionsRemove(subscriptions, call[c].id)
    /\ unsubDone' = IF call[c].known
                    THEN unsubDone \cup {<<call[c].topic, call[c].id>>}
                    ELSE unsubDone
    /\ ret' = [ret EXCEPT ![c] =
                  Returned(call[c].via,
                           [kind |-> "Unsubscribe", topic |-> call[c].topic,
                            id |-> call[c].id], 0)]
    /\ call' = [call EXCEPT ![c] = Idle]
    /\ unsubStored' = IF call[c].stored THEN unsubStored \cup {call[c].id}
                       ELSE unsubStored
    /\ UNCHANGED <<kvVars, frameVars, storeVars, streamVars, notUnsub>>
    /\ UNCHANGED <<ncalls, topics, NEXT_ID, chan, idTask, pub, allocated, snapSeq, sendFailed>>

\* publish, line 87: the task is spawned and the call returns.  banned is
\* history: the ids whose unsubscribe from this topic had returned
Publish(c, name, via) ==
    /\ call[c].pc = "idle"
    /\ Len(pub) < MaxPubs
    /\ ncalls < MaxCalls
    /\ ncalls' = ncalls + 1
    /\ pub' = Append(pub, [topic |-> name, st |-> "spawned", ids |-> {}, cur |-> 0,
                           banned |-> {id \in IdRange : <<name, id>> \in unsubDone}])
    /\ ret' = [ret EXCEPT ![c] =
                  Returned(via, [kind |-> "Publish", topic |-> name,
                                 data |-> <<Str(Len(pub) + 1)>>], 0)]
    /\ UNCHANGED <<kvVars, frameVars, storeVars, streamVars, extVars>>
    /\ UNCHANGED <<topics, subscriptions, NEXT_ID, chan, idTask, call, allocated,
                   unsubDone, snapSeq, sendFailed>>

PublishSnapshotCreatesTopic(p) ==
    /\ pub[p].st = "spawned"
    /\ IF pub[p].topic \in DOMAIN topics
       THEN /\ pub' = [pub EXCEPT ![p].ids = topics[pub[p].topic],
                                  ![p].st = IF topics[pub[p].topic] = {}
                                            THEN "done" ELSE "loop"]
            /\ snapSeq' = Append(snapSeq, p)
            /\ topics' = topics
       ELSE /\ pub' = [pub EXCEPT ![p].st = "done"]
            /\ snapSeq' = snapSeq
            /\ topics' = MapPut(topics, pub[p].topic, {})
    /\ UNCHANGED <<kvVars, frameVars, storeVars, streamVars, extVars>>
    /\ UNCHANGED <<ncalls, subscriptions, NEXT_ID, chan, idTask, call, ret,
                   allocated, unsubDone, sendFailed>>
\* the publish task, lines 88-92: topics.get(&name) and the copy of its ids
PublishSnapshot(p) ==
    /\ pub[p].st = "spawned"
    /\ IF pub[p].topic \in DOMAIN topics
       THEN /\ pub' = [pub EXCEPT ![p].ids = topics[pub[p].topic],
                                  ![p].st = IF topics[pub[p].topic] = {}
                                            THEN "done" ELSE "loop"]
            /\ snapSeq' = Append(snapSeq, p)
       ELSE /\ pub' = [pub EXCEPT ![p].st = "done"]
            /\ snapSeq' = snapSeq
    /\ UNCHANGED <<kvVars, frameVars, storeVars, streamVars, extVars>>
    /\ UNCHANGED <<ncalls, topics, subscriptions, NEXT_ID, chan, idTask, call, ret,
                   allocated, unsubDone, sendFailed>>

\* the task's state once it is through with one id
AfterId(t, id) ==
    [t EXCEPT !.ids = @ \ {id}, !.cur = 0,
              !.st = IF t.ids \ {id} = {} THEN "done" ELSE "loop"]

\* the publish task, lines 94-99, for one id of the copy (a DashSet iterates
\* in an order of its own): subscriptions.get(&id) and sender.send(..).await
PublishSend(p, id) ==
    /\ pub[p].st = "loop"
    /\ id \in pub[p].ids
    /\ IF id \notin subscriptions
       THEN /\ pub' = [pub EXCEPT ![p] = AfterId(@, id)]
            /\ UNCHANGED <<chan, sendFailed>>
       ELSE CASE SendOutcome(id) = "err" ->
                    /\ pub' = [pub EXCEPT ![p] = AfterId(@, id)]
                    /\ sendFailed' = sendFailed \cup {id}
                    /\ chan' = chan
              [] SendOutcome(id) = "push" ->
                    /\ pub' = [pub EXCEPT ![p] = AfterId(@, id)]
                    /\ chan' = Push(chan, id, PubResponse(p))
                    /\ sendFailed' = sendFailed
              [] OTHER ->
                    /\ pub' = [pub EXCEPT ![p].st = "wait", ![p].cur = id]
                    /\ chan' = Enqueue(chan, id, p)
                    /\ sendFailed' = sendFailed
    /\ UNCHANGED <<kvVars, frameVars, storeVars, streamVars, extVars>>
    /\ UNCHANGED <<ncalls, topics, subscriptions, NEXT_ID, idTask, call, ret, allocated,
                   unsubDone, snapSeq>>

\* a publish task that waited was handed a permit: it pushes and goes on
PublishGranted(p) ==
    /\ pub[p].st = "granted"
    /\ chan' = Push(chan, pub[p].cur, PubResponse(p))
    /\ pub' = [pub EXCEPT ![p] = AfterId(@, pub[p].cur)]
    /\ UNCHANGED <<kvVars, frameVars, storeVars, streamVars, extVars>>
    /\ UNCHANGED <<ncalls, topics, subscriptions, NEXT_ID, idTask, call, ret, allocated,
                   unsubDone, snapSeq, sendFailed>>

\* a publish task that waited is woken by the receiver's drop: send returns
\* Err, the task warns and goes on
PublishWaitErr(p) ==
    /\ pub[p].st = "wait"
    /\ chan[pub[p].cur].rx = "dropped"
    /\ sendFailed' = sendFailed \cup {pub[p].cur}
    /\ pub' = [pub EXCEPT ![p] = AfterId(@, pub[p].cur)]
    /\ UNCHANGED <<kvVars, frameVars, storeVars, streamVars, extVars>>
    /\ UNCHANGED <<ncalls, topics, subscriptions, NEXT_ID, chan, idTask, call, ret,
                   allocated, unsubDone, snapSeq>>

\* the task spawned by subscribe, line 56: sender1.send(id response).await
IdTaskSend(id) ==
    /\ idTask[id] = "spawned"
    /\ CASE SendOutcome(id) = "err" ->
              /\ idTask' = [idTask EXCEPT ![id] = "done"]
              /\ chan' = chan
         [] SendOutcome(id) = "push" ->
              /\ idTask' = [idTask EXCEPT ![id] = "done"]
              /\ chan' = Push(chan, id, IdResponse(id))
         [] OTHER ->
              /\ idTask' = [idTask EXCEPT ![id] = "wait"]
              /\ chan' = Enqueue(chan, id, 0)
    /\ UNCHANGED <<kvVars, frameVars, storeVars, streamVars, extVars>>
    /\ UNCHANGED <<ncalls, topics, subscriptions, NEXT_ID, pub, call, ret, allocated,
                   unsubDone, snapSeq, sendFailed>>

IdTaskGranted(id) ==
    /\ idTask[id] = "granted"
    /\ chan' = Push(chan, id, IdResponse(id))
    /\ idTask' = [idTask EXCEPT ![id] = "done"]
    /\ UNCHANGED <<kvVars, frameVars, storeVars, streamVars, extVars>>
    /\ UNCHANGED <<ncalls, topics, subscriptions, NEXT_ID, pub, call, ret, allocated,
                   unsubDone, snapSeq, sendFailed>>

IdTaskWaitErr(id) ==
    /\ idTask[id] = "wait"
    /\ chan[id].rx = "dropped"
    /\ idTask' = [idTask EXCEPT ![id] = "done"]
    /\ UNCHANGED <<kvVars, frameVars, storeVars, streamVars, extVars>>
    /\ UNCHANGED <<ncalls, topics, subscriptions, NEXT_ID, chan, pub, call, ret, allocated,
                   unsubDone, snapSeq, sendFailed>>

\* Receiver::recv yields the next item; the permit it frees goes to the
\* sender that has waited longest, if one waits
Recv(id) ==
    /\ chan[id].rx = "open"
    /\ chan[id].nread < Len(chan[id].log)
    /\ LET w == chan[id].waiters
       IN  IF w = <<>>
           THEN /\ chan' = [chan EXCEPT ![id].nread = @ + 1]
                /\ UNCHANGED <<pub, idTask>>
           ELSE /\ chan' = [chan EXCEPT ![id].nread = @ + 1, ![id].waiters = Tail(w)]
                /\ IF Head(w) = 0
                   THEN /\ idTask' = [idTask EXCEPT ![id] = "granted"]
                        /\ pub' = pub
                   ELSE /\ pub' = [pub EXCEPT ![Head(w)].st = "granted"]
                        /\ idTask' = idTask
    /\ UNCHANGED <<kvVars, frameVars, storeVars, streamVars, extVars>>
    /\ UNCHANGED <<ncalls, topics, subscriptions, NEXT_ID, call, ret, allocated, unsubDone,
                   snapSeq, sendFailed>>

\* the Senders of channel id that are alive: the one stored in subscriptions
\* and the clone sender1 the id task owns until it ends
SendersAlive(id) ==
    (IF id \in subscriptions THEN {"stored"} ELSE {})
        \cup (IF idTask[id] \in {"spawned", "wait", "granted"} THEN {"sender1"} ELSE {})

\* what Receiver::recv gives now: the next item queued; None once the queue
\* is drained and every Sender is dropped; otherwise it waits
recv(id) ==
    IF chan[id].nread < Len(chan[id].log) THEN "item"
    ELSE IF SendersAlive(id) = {} /\ Granted(id) = 0 THEN "none"
    ELSE "wait"

\* the holder of the receiver drops it
DropReceiver(id) ==
    /\ chan[id].rx = "open"
    /\ \A c \in Callers : ~(call[c].pc = "sub_drop" /\ call[c].id = id)
    /\ chan' = CloseReceiver(chan, id)
    /\ UNCHANGED <<kvVars, frameVars, storeVars, streamVars, extVars>>
    /\ UNCHANGED <<ncalls, topics, subscriptions, NEXT_ID, idTask, pub, call, ret, allocated,
                   unsubDone, snapSeq, sendFailed>>

InitTopic ==
    /\ topics = EmptyMap
    /\ subscriptions = {}
    /\ NEXT_ID = 1
    /\ chan = [id \in IdRange |-> NoChannel]
    /\ idTask = [id \in IdRange |-> "none"]
    /\ pub = <<>>
    /\ call = [c \in Callers |-> Idle]
    /\ ret = [c \in Callers |-> NoRet]
    /\ ncalls = 0
    /\ allocated = <<>>
    /\ unsubDone = {}
    /\ snapSeq = <<>>
    /\ sendFailed = {}


\* -------------------------------------------------------------- frame codec
\* src/network/frame.rs.  A frame is a 4-byte big-endian header followed by
\* the payload.  The code's header is a u32 and its limits are 2^31, which
\* the checker's integers cannot hold, so the model keeps the layout and
\* scales the widths: a header byte carries CellBits bits instead of 8, and
\* every constant derived from the width is derived the same way here.

\* frame.rs line 14
LENGTH_BYTES == 4
\* bits carried by one byte of the header (8 in the code)
CellBits == 2
\* the width of the header, the u32 of put_u32 / get_u32
HeaderBits == LENGTH_BYTES * CellBits
\* frame.rs line 23: 1 << 31, the top bit of the header
COMPRESSION_BIT == 2 ^ (HeaderBits - 1)
\* frame.rs line 16: 2 * 1024 * 1024 * 1024, the same number as the top bit
MAX_FRAME == 2 * (2 ^ (HeaderBits - 2))
\* frame.rs line 21: 1436 in the code, scaled with the header
COMPRESSION_THRESHOLD == 4

\* `n as u32`
AsU32(n) == n % (2 ^ HeaderBits)
OrCompressionBitDropped(a) == a
\* `a | COMPRESSION_BIT as u32` on a u32
OrCompressionBit(a) == IF a >= COMPRESSION_BIT THEN a ELSE a + COMPRESSION_BIT

\* BufMut::put_u32: the bytes of the header, most significant first
U32Bytes(n) ==
    [i \in 1..LENGTH_BYTES |-> (n \div (2 ^ (CellBits * (LENGTH_BYTES - i)))) % (2 ^ CellBits)]
put_u32(buf, n) == buf \o U32Bytes(n)
\* Buf::get_u32 on a buffer that holds at least LENGTH_BYTES bytes
RECURSIVE BytesValue(_)
BytesValue(bytes) ==
    IF bytes = <<>> THEN 0
    ELSE BytesValue(SubSeq(bytes, 1, Len(bytes) - 1)) * (2 ^ CellBits) + bytes[Len(bytes)]
get_u32(buf) == BytesValue(SubSeq(buf, 1, LENGTH_BYTES))
\* Buf::advance / BytesMut::split_off(at), the part from `at` on
Advance(buf, n) == SubSeq(buf, n + 1, Len(buf))

\* prost::Message for CommandRequest and CommandResponse.  A message is its
\* type and the content of its fields; the default message encodes to no
\* bytes, any other to a length-delimited field: the length, then the content.
MessageKinds == {"CommandRequest", "CommandResponse"}
DefaultMessage(kind) == [kind |-> kind, data |-> <<>>]
MessageEncode(m) == IF m.data = <<>> THEN <<>> ELSE <<Len(m.data)>> \o m.data
encoded_len(m) == Len(MessageEncode(m))
DecodeError == [ok |-> FALSE, err |-> "DecodeError"]
MessageDecode(kind, bytes) ==
    IF bytes = <<>> THEN [ok |-> TRUE, msg |-> DefaultMessage(kind)]
    ELSE IF Len(bytes) >= 2 /\ bytes[1] = Len(bytes) - 1
         THEN [ok |-> TRUE, msg |-> [kind |-> kind, data |-> Tail(bytes)]]
         ELSE DecodeError

\* flate2's GzEncoder / GzDecoder: a lossless coding whose output is shorter
\* than its input for repetitive input and longer for input without
\* repetition (a stored deflate block adds bytes).  The model is a magic byte,
\* the runs of the input, each as its length and its byte, and a trailer with
\* the length of the input (gzip's ISIZE), which the decoder verifies.
GzMagic == 31
RECURSIVE Runs(_)
Runs(bytes) ==
    IF bytes = <<>> THEN <<>>
    ELSE IF Len(bytes) = 1 THEN <<1, bytes[1]>>
    ELSE LET half == Len(bytes) \div 2
             l == Runs(SubSeq(bytes, 1, half))
             r == Runs(Advance(bytes, half))
         IN  \* a run that crosses the middle is one run
             IF l[Len(l)] = r[2]
             THEN SubSeq(l, 1, Len(l) - 2) \o <<l[Len(l) - 1] + r[1], r[2]>> \o Advance(r, 2)
             ELSE l \o r
GzEncode(bytes) == <<GzMagic>> \o Runs(bytes) \o <<Len(bytes)>>
RECURSIVE Expand(_)
Expand(runs) ==
    IF runs = <<>> THEN <<>>
    ELSE IF Len(runs) = 2 THEN [i \in 1..runs[1] |-> runs[2]]
    ELSE LET half == 2 * (Len(runs) \div 4)
         IN  Expand(SubSeq(runs, 1, half)) \o Expand(Advance(runs, half))
IoError == [ok |-> FALSE, err |-> "IoError"]
GzDecode(bytes) ==
    IF Len(bytes) >= 2 /\ bytes[1] = GzMagic /\ Len(bytes) % 2 = 0
    THEN LET out == Expand(SubSeq(bytes, 2, Len(bytes) - 1))
         IN  IF Len(out) = bytes[Len(bytes)] THEN [ok |-> TRUE, bytes |-> out]
             ELSE IoError
    ELSE IoError

FrameError == [ok |-> FALSE, err |-> "FrameError"]

\* FrameCoder::encode_frame(&self, buf): the result and the buffer afterwards
encode_frame(m, buf) ==
    LET size == encoded_len(m)
    IN  IF size > MAX_FRAME THEN [res |-> FrameError, buf |-> buf]
        ELSE LET buf0 == put_u32(buf, AsU32(size))
             IN  IF size > COMPRESSION_THRESHOLD
                 THEN LET buf1 == MessageEncode(m)
                          \* split_off keeps the first LENGTH_BYTES bytes in
                          \* buf, which is then cleared; the encoder appends
                          \* to what split_off returned
                          payload == Advance(buf0, LENGTH_BYTES) \o GzEncode(buf1)
                          header == OrCompressionBit(AsU32(Len(payload)))
                      IN  [res |-> [ok |-> TRUE], buf |-> put_u32(<<>>, header) \o payload]
                 ELSE [res |-> [ok |-> TRUE], buf |-> buf0 \o MessageEncode(m)]

decode_headerKeepsBit(header) ==
    [len |-> header, compressed |-> header >= COMPRESSION_BIT]
\* decode_header(header) -> (len, compressed)
decode_header(header) ==
    [len |-> header % COMPRESSION_BIT, compressed |-> header >= COMPRESSION_BIT]

Panicked == [ok |-> FALSE, err |-> "panic"]

\* FrameCoder::decode_frame(buf) for the message type `kind`: the result and
\* the buffer afterwards.  get_u32 panics on a buffer shorter than a header,
\* and the slice buf[..len] on one shorter than the header says.
decode_frame(kind, buf) ==
    IF Len(buf) < LENGTH_BYTES THEN [res |-> Panicked, buf |-> buf]
    ELSE LET header == get_u32(buf)
             h == decode_header(header)
             rest == Advance(buf, LENGTH_BYTES)
         IN  IF h.len > Len(rest) THEN [res |-> Panicked, buf |-> rest]
             ELSE IF h.compressed
                  THEN LET buf1 == GzDecode(SubSeq(rest, 1, h.len))
                       IN  IF ~buf1.ok THEN [res |-> IoError, buf |-> rest]
                           ELSE [res |-> MessageDecode(kind, buf1.bytes),
                                 buf |-> Advance(rest, h.len)]
                  ELSE LET msg == MessageDecode(kind, SubSeq(rest, 1, h.len))
                       IN  \* `?` returns before buf.advance(len)
                           IF ~msg.ok THEN [res |-> msg, buf |-> rest]
                           ELSE [res |-> msg, buf |-> Advance(rest, h.len)]

\* The messages framed: field content without repetition and with nothing
\* but repetition, of every length up to MaxData and of the lengths around
\* the largest frame.
MaxData == 8
Varied(n) == [i \in 1..n |-> i % 2]
Uniform(n) == [i \in 1..n |-> 0]
DataLengths == (0..MaxData) \cup ((MAX_FRAME - 5)..(MAX_FRAME + 1))
Messages ==
    {[kind |-> k, data |-> d] :
        k \in MessageKinds, d \in {Varied(n) : n \in DataLengths} \cup {Uniform(n) : n \in DataLengths}}

NoFrame == [state |-> "none"]

\* encode_frame(&mut buf) on a new BytesMut
EncodeFrame(m) ==
    /\ fenc = NoFrame
    /\ fbuf = <<>>
    /\ LET out == encode_frame(m, fbuf)
       IN  /\ fbuf' = out.buf
           /\ fenc' = [state |-> "encoded", msg |-> m, res |-> out.res]
    /\ fdec' = NoFrame
    /\ UNCHANGED <<topicVars, kvVars, storeVars, streamVars, extVars>>

\* decode_frame(&mut buf) of the frame just written, as the message's type
DecodeFrame ==
    /\ fenc # NoFrame
    /\ fenc.res.ok
    /\ fdec = NoFrame
    /\ LET out == decode_frame(fenc.msg.kind, fbuf)
       IN  /\ fbuf' = out.buf
           /\ fdec' = [state |-> "decoded", res |-> out.res]
    /\ fenc' = fenc
    /\ UNCHANGED <<topicVars, kvVars, storeVars, streamVars, extVars>>

InitFrame ==
    /\ fbuf = <<>>
    /\ fenc = NoFrame
    /\ fdec = NoFrame

NextFrame ==
    \/ \E m \in Messages : EncodeFrame(m)
    \/ DecodeFrame

\* ------------------------------------------------------------ storage engine
\* The Storage trait called directly on MemTable handles
\* (src/storage/memory.rs), by several tasks.

\* calls of the Storage trait in one behaviour
MaxStoreCalls == 2

Handles == {"h1", "h2"}
NoHandle == [exists |-> FALSE]
Handle(tbl) == [exists |-> TRUE, tables |-> tbl]

\* #[derive(Clone)] on MemTable clones its field, and DashMap::clone builds a
\* new map holding clones of the entries: the new handle starts with the
\* contents the old one has and is a map of its own from then on.
MemTableClone(ms, from, to) == [ms EXCEPT ![to] = Handle(ms[from].tables)]

\* the table a call on handle h reads and writes
TablesOf(ms, h) == ms[h].tables

\* the pairs of a table, as a set (Vec<KvPair> up to order)
PairSet(m) == {KvPair(k, m[k]) : k \in DOMAIN m}

\* The reference: one map from (table, key) to value, nothing else.
RefEmpty == [x \in {} |-> Null]
RefGet(r, t, k) == IF <<t, k>> \in DOMAIN r THEN Some(r[<<t, k>>]) ELSE None
RefContains(r, t, k) == <<t, k>> \in DOMAIN r
RefSet(r, t, k, v) == [x \in (DOMAIN r) \cup {<<t, k>>} |-> IF x = <<t, k>> THEN v ELSE r[x]]
RefDel(r, t, k) == [x \in (DOMAIN r) \ {<<t, k>>} |-> r[x]]
RefGetAll(r, t) == {KvPair(x[2], r[x]) : x \in {y \in DOMAIN r : y[1] = t}}

StoreOps == {"get", "set", "contains", "del", "get_all"}
StoreRequests ==
    {[op |-> o, table |-> t, key |-> k, value |-> v] :
        o \in {"set"}, t \in TableNames, k \in Keys, v \in KvValues}
    \cup {[op |-> o, table |-> t, key |-> k] :
        o \in {"get", "contains", "del"}, t \in TableNames, k \in Keys}
    \cup {[op |-> "get_all", table |-> t] : t \in TableNames}

\* one call of the trait on the tables of a handle: the tables afterwards and
\* the Ok(..) value, a Vec<KvPair> as the set of its pairs
StorageCall(tbl, c) ==
    CASE c.op = "get" -> MemGet(tbl, c.table, c.key)
      [] c.op = "set" -> MemSet(tbl, c.table, c.key, c.value)
      [] c.op = "contains" -> MemContains(tbl, c.table, c.key)
      [] c.op = "del" -> MemDel(tbl, c.table, c.key)
      [] c.op = "get_all" ->
            LET tb == get_or_create_table(tbl, c.table)
            IN  [tables |-> tb, res |-> PairSet(tb[c.table])]

\* the same call on the reference
ReferenceCall(r, c) ==
    CASE c.op = "get" -> [ref |-> r, res |-> RefGet(r, c.table, c.key)]
      [] c.op = "set" -> [ref |-> RefSet(r, c.table, c.key, c.value),
                          res |-> RefGet(r, c.table, c.key)]
      [] c.op = "contains" -> [ref |-> r, res |-> RefContains(r, c.table, c.key)]
      [] c.op = "del" -> [ref |-> RefDel(r, c.table, c.key),
                          res |-> RefGet(r, c.table, c.key)]
      [] c.op = "get_all" -> [ref |-> r, res |-> RefGetAll(r, c.table)]

NoIter == [stage |-> "none"]
NoStoreCall == [op |-> "none"]

\* the pairs an iterator returned by get_iter still has to yield come from
\* the clone of the table it owns
IterPairsLive(it, ms) == PairSet(TablesOf(ms, it.h)[it.table]) \ it.yielded
IterPairs(it, ms) == PairSet(it.snap) \ it.yielded

\* The Ref returned by get_or_create_table keeps the shard of the table
\* locked for reading until it is dropped; entry() of another call on the
\* same table needs that shard for writing and waits.
TableRefHeld(h, t) == iter.stage = "held" /\ iter.h = h /\ iter.table = t

\* get / set / contains / del / get_all through handle h
StoreCall(h, c) ==
    /\ mem[h].exists
    /\ stLast = NoStoreCall
    /\ stCalls < MaxStoreCalls
    /\ ~TableRefHeld(h, c.table)
    /\ LET out == StorageCall(TablesOf(mem, h), c)
           exp == ReferenceCall(refmap[h], c)
       IN  /\ mem' = [mem EXCEPT ![h].tables = out.tables]
           /\ refmap' = [refmap EXCEPT ![h] = exp.ref]
           /\ stLast' = [op |-> c.op, h |-> h, call |-> c, res |-> out.res,
                         expected |-> exp.res]
    /\ stCalls' = stCalls + 1
    /\ UNCHANGED iter
    /\ UNCHANGED <<topicVars, kvVars, frameVars, streamVars, extVars>>

\* let h2 = h1.clone()
CloneHandle ==
    /\ ~mem["h2"].exists
    /\ stLast = NoStoreCall
    /\ mem' = MemTableClone(mem, "h1", "h2")
    /\ refmap' = [refmap EXCEPT !["h2"] = refmap["h1"]]
    /\ UNCHANGED <<stLast, iter, stCalls>>
    /\ UNCHANGED <<topicVars, kvVars, frameVars, streamVars, extVars>>

\* get_iter(t), first half: get_or_create_table(t) returns the Ref
GetIterEntry(h, t) ==
    /\ mem[h].exists
    /\ iter = NoIter
    /\ stLast = NoStoreCall
    /\ mem' = [mem EXCEPT ![h].tables = get_or_create_table(@, t)]
    /\ iter' = [stage |-> "held", h |-> h, table |-> t,
                atCall |-> PairSet(get_or_create_table(TablesOf(mem, h), t)[t])]
    /\ UNCHANGED <<refmap, stLast, stCalls>>
    /\ UNCHANGED <<topicVars, kvVars, frameVars, streamVars, extVars>>

\* get_iter(t), second half: .clone() of the table, the Ref is dropped and
\* the iterator over the clone is returned
GetIterClone ==
    /\ iter.stage = "held"
    /\ iter' = [stage |-> "open", h |-> iter.h, table |-> iter.table,
                atCall |-> iter.atCall,
                snap |-> TablesOf(mem, iter.h)[iter.table],
                yielded |-> {}]
    /\ stLast = NoStoreCall
    /\ UNCHANGED <<mem, refmap, stLast, stCalls>>
    /\ UNCHANGED <<topicVars, kvVars, frameVars, streamVars, extVars>>

\* Iterator::next on the iterator get_iter returned: one of the pairs not
\* yielded yet, in the order of the map's own
IterNext ==
    /\ iter.stage = "open"
    /\ \E p \in IterPairs(iter, mem) :
        iter' = [iter EXCEPT !.yielded = @ \cup {p}]
    /\ stLast = NoStoreCall
    /\ UNCHANGED <<mem, refmap, stLast, stCalls>>
    /\ UNCHANGED <<topicVars, kvVars, frameVars, streamVars, extVars>>

\* the caller takes the result of its call
StoreReturn ==
    /\ stLast # NoStoreCall
    /\ stLast' = NoStoreCall
    /\ UNCHANGED <<mem, refmap, iter, stCalls>>
    /\ UNCHANGED <<topicVars, kvVars, frameVars, streamVars, extVars>>

InitStore ==
    /\ mem = [h \in Handles |-> IF h = "h1" THEN Handle(EmptyMap) ELSE NoHandle]
    /\ refmap = [h \in Handles |-> RefEmpty]
    /\ stLast = NoStoreCall
    /\ iter = NoIter
    /\ stCalls = 0

NextStore ==
    \/ \E h \in Handles, c \in StoreRequests : StoreCall(h, c)
    \/ CloneHandle
    \/ \E h \in Handles, t \in TableNames : GetIterEntry(h, t)
    \/ GetIterClone
    \/ IterNext
    \/ StoreReturn

\* ------------------------------------------------------ storage commands
RECURSIVE SeqsUpTo(_, _)
SeqsUpTo(S, n) ==
    IF n = 0 THEN {<<>>}
    ELSE LET shorter == SeqsUpTo(S, n - 1)
         IN  shorter \cup {Append(q, x) : q \in shorter, x \in S}

KeyLists == SeqsUpTo(Keys, MaxList)
PairLists == SeqsUpTo({KvPair(k, v) : k \in Keys, v \in KvValues}, MaxList)
\* the pair of an Hset: absent, without a value, or with one
HsetPairs ==
    {None} \cup {Some([key |-> k, value |-> ov]) :
                    k \in Keys, ov \in {None} \cup {Some(v) : v \in KvValues}}
\* the orders a DashMap may iterate its keys in
KeyOrders == {<<"k1", "k2">>, <<"k2", "k1">>}

KvRequests ==
    {[kind |-> kd, table |-> t, key |-> k] :
        kd \in {"Hget", "Hdel", "Hexist"}, t \in TableNames, k \in Keys}
    \cup {[kind |-> "Hset", table |-> t, pair |-> pr] : t \in TableNames, pr \in HsetPairs}
    \cup {[kind |-> "Hgetall", table |-> t] : t \in TableNames}
    \cup {[kind |-> kd, table |-> t, keys |-> ks] :
            kd \in {"Hmget", "Hmdel", "Hmexist"}, t \in TableNames, ks \in KeyLists}
    \cup {[kind |-> "Hmset", table |-> t, pairs |-> ps] : t \in TableNames, ps \in PairLists}
    \cup {[kind |-> "None"]}

\* the keys of table t a request writes
RECURSIVE KeysOf(_)
KeysOf(pairs) == IF pairs = <<>> THEN {} ELSE {Head(pairs).key} \cup KeysOf(Tail(pairs))
Range(q) == {q[i] : i \in 1..Len(q)}
Written(req) ==
    CASE req.kind = "Hset" -> IF req.pair.some THEN {req.pair.val.key} ELSE {}
      [] req.kind = "Hdel" -> {req.key}
      [] req.kind = "Hmset" -> KeysOf(req.pairs)
      [] req.kind = "Hmdel" -> Range(req.keys)
      [] OTHER -> {}

NoLast == [req |-> [kind |-> "none"], stream |-> [items |-> <<>>, rx |-> 0]]

\* ------------------------------------------------------------------ hooks
\* ServiceInner::new: no hook registered
NoHooks == [on_received |-> <<>>, on_executed |-> <<>>,
            on_before_send |-> <<>>, on_after_send |-> <<>>]

\* what a registered fn(&mut CommandResponse) does to the response: "d" sets
\* status 201 (fn d of event_registration_should_work), "tag" writes the
\* status it finds into message
ApplyHook(h, resp) ==
    CASE h = "d" -> [resp EXCEPT !.status = 201]
      [] h = "tag" -> [resp EXCEPT !.message = <<"status", resp.status>>]
      [] OTHER -> resp

\* impl Notify for Vec<fn(&Args)>: every hook in vector order, each given
\* args; store is what the store holds while they run
Notify(hs, phase, args, store) ==
    [i \in 1..Len(hs) |->
        [hook |-> hs[i], phase |-> phase, args |-> args, store |-> store]]

\* impl NotifyMut for Vec<fn(&mut Args)>: every hook in vector order, each
\* given the response as the hooks before it left it
RECURSIVE NotifyMut(_, _, _)
NotifyMut(hs, resp, store) ==
    IF hs = <<>> THEN [resp |-> resp, log |-> <<>>]
    ELSE LET rest == NotifyMut(Tail(hs), ApplyHook(Head(hs), resp), store)
         IN  [resp |-> rest.resp,
              log |-> <<[hook |-> Head(hs), phase |-> "before_send",
                         args |-> resp, store |-> store]>> \o rest.log]

\* Service::execute, lines 71-84, around dispatch: before is the store when
\* execute is entered, after the store and response dispatch left.  The
\* hooks of on_after_send are not called, only tested for is_empty
ExecuteHooksExecutedLast(hk, req, before, after, response) ==
    LET mut == NotifyMut(hk.on_before_send, response, after)
    IN  [resp |-> mut.resp,
         log |-> Notify(hk.on_received, "received", req, before)
                 \o mut.log
                 \o Notify(hk.on_executed, "executed", mut.resp, after)]
ExecuteHooks(hk, req, before, after, response) ==
    IF response = DefaultResponse
    THEN [resp |-> response,
          log |-> Notify(hk.on_received, "received", req, before)]
    ELSE LET mut == NotifyMut(hk.on_before_send, response, after)
         IN  [resp |-> mut.resp,
              log |-> Notify(hk.on_received, "received", req, before)
                      \o Notify(hk.on_executed, "executed", response, after)
                      \o mut.log]

\* Service::execute for a storage request, lines 71-84, called by the server
\* loop (ProstServerStream::process, line 42) once the stream of the
\* request before has been sent
Execute(req, ord) ==
    /\ kvLast = NoLast
    /\ LET r == dispatch(req, tables, ord)
           out == ExecuteHooks(hooks, req, tables, r.tables, r.resp)
       IN  /\ tables' = r.tables
           /\ kvLast' = [req |-> req, stream |-> ServiceReturn(out.resp)]
           /\ hookLog' = out.log
    /\ hooks' = hooks
    /\ kvBefore' = tables
    /\ lastSet' = [tk \in TableNames \X Keys |->
                     IF req.kind # "None" /\ tk[1] = req.table /\ tk[2] \in Written(req)
                     THEN (IF req.kind = "Hset"
                           THEN Some(UnwrapOrDefault(req.pair.val.value)) ELSE None)
                     ELSE lastSet[tk]]
    /\ kvErr' = FALSE
    /\ UNCHANGED <<topicVars, frameVars, storeVars, streamVars, extVars>>

\* the calls of the Storage trait a request makes
StoreCalls(req) ==
    CASE req.kind \in {"Hget", "Hgetall", "Hdel", "Hexist"} -> 1
      [] req.kind = "Hset" -> IF req.pair.some THEN 1 ELSE 0
      [] req.kind \in {"Hmget", "Hmdel", "Hmexist"} -> Len(req.keys)
      [] req.kind = "Hmset" -> Len(req.pairs)
      [] OTHER -> 0

\* Service::execute for a storage request on a store whose engine fails:
\* every call of the Storage trait returns Err(KvError::StorageError) and
\* changes nothing
ExecuteStoreError(req) ==
    /\ kvLast = NoLast
    /\ StoreCalls(req) > 0
    /\ LET out == ExecuteHooks(hooks, req, tables, tables, dispatchOnError(req))
       IN  /\ kvLast' = [req |-> req, stream |-> ServiceReturn(out.resp)]
           /\ hookLog' = out.log
    /\ hooks' = hooks
    /\ kvBefore' = tables
    /\ kvErr' = TRUE
    /\ UNCHANGED <<tables, lastSet>>
    /\ UNCHANGED <<topicVars, frameVars, storeVars, streamVars, extVars>>

\* history: the mark of a response sent
Sent == [hook |-> "process", phase |-> "sent"]

\* ProstServerStream::process, lines 43-45: the stream is sent to its end;
\* no hook is called there
SendStream ==
    /\ kvLast # NoLast
    /\ kvLast' = NoLast
    /\ kvBefore' = tables
    /\ kvErr' = FALSE
    /\ hookLog' = <<Sent>>
    /\ UNCHANGED <<tables, lastSet, hooks>>
    /\ UNCHANGED <<topicVars, frameVars, storeVars, streamVars, extVars>>

InitKV ==
    /\ tables = EmptyMap
    /\ kvLast = NoLast
    /\ kvBefore = EmptyMap
    /\ lastSet = [tk \in TableNames \X Keys |-> None]
    /\ kvErr = FALSE
    /\ hooks = NoHooks
    /\ hookLog = <<>>

\* ------------------------------------------------- framed stream, server loop
\* ProstStream (src/network/stream.rs) over a byte stream, the server loop
\* ProstServerStream::process (src/network/mod.rs) on the logical streams of
\* one multiplexed connection (src/network/multiplex.rs), and a client that
\* pulls from its ProstStream (ProstClientStream::execute_unary).

\* frames the peers write in one behaviour
MaxFrames == 2

Streams == {"s1", "s2"}

\* the requests a client sends, and prost's encoding of each as field content
ServerRequests ==
    <<[kind |-> "Hset", table |-> "t1",
       pair |-> Some([key |-> "k1", value |-> Some(Integer(10))])],
      [kind |-> "Hget", table |-> "t1", key |-> "k1"]>>
RequestMessage(i) == [kind |-> "CommandRequest", data |-> <<i>>]
\* the request a decoded message is; the default message carries no command
ParseRequest(m) ==
    IF m.data # <<>> /\ Len(m.data) = 1 /\ m.data[1] \in 1..Len(ServerRequests)
    THEN ServerRequests[m.data[1]]
    ELSE [kind |-> "None"]

FrameOf(m) == encode_frame(m, <<>>).buf
\* frames a peer can write that are delimited as the header says and do not
\* decode: a payload that is no message, a compressed payload that is no
\* gzip stream, and a gzip stream of bytes that are no message
BadMessageFrame == put_u32(<<>>, 2) \o <<9, 9>>
BadGzipFrame == put_u32(<<>>, OrCompressionBit(2)) \o <<9, 9>>
BadGzipMessageFrame ==
    LET payload == GzEncode(<<9, 9>>)
    IN  put_u32(<<>>, OrCompressionBit(Len(payload))) \o payload
BadFrames == {BadMessageFrame, BadGzipFrame, BadGzipMessageFrame}
\* the frames a server writes to the client of the model: responses below
\* and above the compression threshold
ResponseMessages ==
    {[kind |-> "CommandResponse", data |-> d] : d \in {<<>>, <<1>>, Uniform(COMPRESSION_THRESHOLD)}}

Pending == [ready |-> FALSE]
Ready(item) == [ready |-> TRUE, item |-> item]

\* read_frame(stream, buf): read_exact of the header, then of as many bytes
\* as the header says, appended to buf.  inbound holds the bytes the stream
\* can hand over without waiting.  read_exact takes what there is; poll_next
\* makes a new read_frame future at every poll, so when the future ends
\* not-ready the bytes it has taken (in its header array, or in rest) are
\* dropped with it.
read_frame(inbound, closed, buf) ==
    LET eof == [res |-> Ready(IoError), inbound |-> <<>>, buf |-> buf]
        wait == [res |-> Pending, inbound |-> <<>>, buf |-> buf]
    IN  IF Len(inbound) < LENGTH_BYTES THEN (IF closed THEN eof ELSE wait)
        ELSE LET header == get_u32(inbound)
                 len == decode_header(header).len
             IN  IF Len(inbound) < LENGTH_BYTES + len THEN (IF closed THEN eof ELSE wait)
                 ELSE [res |-> Ready([ok |-> TRUE]),
                       inbound |-> Advance(inbound, LENGTH_BYTES + len),
                       buf |-> put_u32(buf, AsU32(header))
                               \o SubSeq(inbound, LENGTH_BYTES + 1, LENGTH_BYTES + len)]

\* Stream::poll_next for ProstStream: what it returns, read_buf afterwards
\* and the bytes left in the stream.  A pull that finds bytes in read_buf
\* fails its assertion.
poll_next(kind, rb, inbound, closed) ==
    IF rb # <<>>
    THEN [panic |-> TRUE, res |-> Ready(Panicked), read_buf |-> rb, inbound |-> inbound]
    ELSE \* rest = read_buf.split_off(0) leaves read_buf empty
         LET fut == read_frame(inbound, closed, <<>>)
         IN  IF ~fut.res.ready
             THEN [panic |-> FALSE, res |-> Pending, read_buf |-> <<>>,
                   inbound |-> fut.inbound]
             ELSE IF ~fut.res.item.ok
             THEN [panic |-> FALSE, res |-> fut.res, read_buf |-> <<>>,
                   inbound |-> fut.inbound]
             ELSE \* read_buf.unsplit(rest), then decode_frame(&mut read_buf)
                  LET out == decode_frame(kind, fut.buf)
                  IN  [panic |-> FALSE, res |-> Ready(out.res), read_buf |-> out.buf,
                       inbound |-> fut.inbound]

NoPull == [outcome |-> "none"]
PullOutcome(p) ==
    IF p.panic THEN "panic"
    ELSE IF ~p.res.ready THEN "not-ready"
    ELSE IF p.res.item.ok THEN "message"
    ELSE p.res.item.err

\* the peer of stream s writes one frame and flushes it
PeerWrite(s, frame) ==
    /\ ~peerClosed[s]
    /\ written < MaxFrames
    /\ inb' = [inb EXCEPT ![s] = @ \o frame]
    /\ written' = written + 1
    /\ UNCHANGED <<peerClosed, read_buf, lastPull, pc, request, respq, flushed, nread, reset, conn>>
    /\ UNCHANGED <<topicVars, kvVars, frameVars, storeVars, extVars>>

\* the peer of stream s closes its writing half
PeerClose(s) ==
    /\ ~peerClosed[s]
    /\ peerClosed' = [peerClosed EXCEPT ![s] = TRUE]
    /\ UNCHANGED <<inb, written, read_buf, lastPull, pc, request, respq, flushed, nread, reset, conn>>
    /\ UNCHANGED <<topicVars, kvVars, frameVars, storeVars, extVars>>

\* the peer of stream s resets the stream: the server's writes to it fail
PeerReset(s) ==
    /\ ~reset[s]
    /\ reset' = [reset EXCEPT ![s] = TRUE]
    /\ peerClosed' = [peerClosed EXCEPT ![s] = TRUE]
    /\ UNCHANGED <<inb, written, read_buf, lastPull, pc, request, respq, flushed, nread, conn>>
    /\ UNCHANGED <<topicVars, kvVars, frameVars, storeVars, extVars>>

\* one pull of the client's ProstStream<_, CommandResponse, CommandRequest>
\* (`stream.next().await` polls until the poll is ready; here one poll)
Pull(s) ==
    /\ pc[s] = "next"
    /\ LET p == poll_next("CommandResponse", read_buf[s], inb[s], peerClosed[s])
       IN  /\ read_buf' = [read_buf EXCEPT ![s] = p.read_buf]
           /\ inb' = [inb EXCEPT ![s] = p.inbound]
           /\ lastPull' = [lastPull EXCEPT ![s] = [outcome |-> PullOutcome(p)]]
           /\ pc' = [pc EXCEPT ![s] = IF p.panic THEN "panicked" ELSE "next"]
    /\ UNCHANGED <<peerClosed, written, request, respq, flushed, nread, reset, conn>>
    /\ UNCHANGED <<topicVars, kvVars, frameVars, storeVars>>

\* ProstClientStream::execute_unary, `stream.next().await`.  The caller can
\* call again whatever the last call returned.
ClientPull(s) ==
    /\ Pull(s)
    /\ UNCHANGED extVars

\* where the loop of process goes after `stream.next().await` returned item
AfterNextReadsOn(item) == "next"
AfterNext(item) == IF item.ok THEN "execute" ELSE "done"

\* a panic in the handler of one stream unwinds the task that polls the
\* handlers of all streams of the connection
\* (tokio::spawn(..try_for_each_concurrent(None, f)))
Unwind(c) == "panicked"

\* process, `while let Some(Ok(request)) = stream.next().await`
ServerNext(s) ==
    /\ conn = "up"
    /\ pc[s] = "next"
    /\ LET p == poll_next("CommandRequest", read_buf[s], inb[s], peerClosed[s])
       IN  /\ read_buf' = [read_buf EXCEPT ![s] = p.read_buf]
           /\ inb' = [inb EXCEPT ![s] = p.inbound]
           /\ lastPull' = [lastPull EXCEPT ![s] = [outcome |-> PullOutcome(p)]]
           /\ IF p.panic
              THEN /\ pc' = [pc EXCEPT ![s] = "panicked"]
                   /\ conn' = Unwind(conn)
                   /\ UNCHANGED <<request, nread>>
              ELSE IF ~p.res.ready
              THEN UNCHANGED <<pc, conn, request, nread>>
              ELSE /\ pc' = [pc EXCEPT ![s] = AfterNext(p.res.item)]
                   /\ conn' = conn
                   /\ IF p.res.item.ok
                      THEN /\ request' = [request EXCEPT ![s] = ParseRequest(p.res.item.msg)]
                           /\ nread' = [nread EXCEPT ![s] = @ + 1]
                      ELSE UNCHANGED <<request, nread>>
    /\ UNCHANGED <<peerClosed, written, respq, flushed, reset>>
    /\ UNCHANGED <<topicVars, kvVars, frameVars, storeVars, extVars>>

\* process, `let mut response = self.service.execute(request)`
ServerExecute(s) ==
    /\ conn = "up"
    /\ pc[s] = "execute"
    /\ \E ord \in KeyOrders :
        LET r == dispatch(request[s], tables, ord)
            o == ExecuteHooks(hooks, request[s], tables, r.tables, r.resp)
        IN  /\ tables' = r.tables
            /\ respq' = [respq EXCEPT ![s] = ServiceReturn(o.resp).items]
    /\ pc' = [pc EXCEPT ![s] = "send"]
    /\ UNCHANGED <<kvLast, kvBefore, lastSet, kvErr, hooks, hookLog>>
    /\ UNCHANGED <<inb, peerClosed, written, read_buf, lastPull, request, flushed, nread, reset, conn>>
    /\ UNCHANGED <<topicVars, frameVars, storeVars, extVars>>

\* process, `while let Some(data) = response.next().await
\*               { stream.send(&data).await.unwrap(); }`
\* send is feed (start_send: encode_frame into write_buf) and flush; a write
\* to a stream the peer has reset fails and unwrap panics
ServerSend(s) ==
    /\ conn = "up"
    /\ pc[s] = "send"
    /\ IF respq[s] = <<>>
       THEN /\ pc' = [pc EXCEPT ![s] = "next"]
            /\ UNCHANGED <<respq, flushed, conn>>
       ELSE IF reset[s]
       THEN /\ pc' = [pc EXCEPT ![s] = "panicked"]
            /\ conn' = Unwind(conn)
            /\ UNCHANGED <<respq, flushed>>
       ELSE /\ flushed' = [flushed EXCEPT ![s] = Append(@, [n |-> nread[s], response |-> Head(respq[s])])]
            /\ respq' = [respq EXCEPT ![s] = Tail(@)]
            /\ UNCHANGED <<pc, conn>>
    /\ UNCHANGED <<inb, peerClosed, written, read_buf, lastPull, request, nread, reset>>
    /\ UNCHANGED <<topicVars, kvVars, frameVars, storeVars, extVars>>

InitStream ==
    /\ inb = [s \in Streams |-> <<>>]
    /\ peerClosed = [s \in Streams |-> FALSE]
    /\ written = 0
    /\ read_buf = [s \in Streams |-> <<>>]
    /\ lastPull = [s \in Streams |-> NoPull]
    /\ pc = [s \in Streams |-> "next"]
    /\ request = [s \in Streams |-> [kind |-> "None"]]
    /\ respq = [s \in Streams |-> <<>>]
    /\ flushed = [s \in Streams |-> <<>>]
    /\ nread = [s \in Streams |-> 0]
    /\ reset = [s \in Streams |-> FALSE]
    /\ conn = "up"

\* a client pulling responses from one stream
NextClient ==
    \/ \E m \in ResponseMessages : PeerWrite("s1", FrameOf(m))
    \/ \E f \in BadFrames : PeerWrite("s1", f)
    \/ PeerClose("s1")
    \/ ClientPull("s1")

\* the server end of a multiplexed connection with two logical streams
NextServer ==
    \/ \E s \in Streams, i \in 1..Len(ServerRequests) : PeerWrite(s, FrameOf(RequestMessage(i)))
    \/ \E s \in Streams, f \in BadFrames : PeerWrite(s, f)
    \/ \E s \in Streams : PeerClose(s)
    \/ \E s \in Streams : PeerReset(s)
    \/ \E s \in Streams : ServerNext(s)
    \/ \E s \in Streams : ServerExecute(s)
    \/ \E s \in Streams : ServerSend(s)

\* ------------------------------------------- partial reads (stream.rs)
\* the peer of s1 writes the frame of message m; the bytes are in flight
PeerSend(m) ==
    /\ Len(sentMsgs) < MaxFrames
    /\ wire' = wire \o FrameOf(m)
    /\ sentMsgs' = Append(sentMsgs, m)
    /\ UNCHANGED pulled
    /\ UNCHANGED <<topicVars, kvVars, frameVars, storeVars, streamVars>>
    /\ UNCHANGED notRead

\* the transport delivers the next n bytes: poll_read on the underlying
\* stream hands them over, and is not ready when there are none
Deliver(n) ==
    /\ n \in 1..Len(wire)
    /\ inb' = [inb EXCEPT !["s1"] = @ \o SubSeq(wire, 1, n)]
    /\ wire' = Advance(wire, n)
    /\ UNCHANGED <<sentMsgs, pulled>>
    /\ UNCHANGED <<peerClosed, written, read_buf, lastPull, pc, request, respq, flushed,
                   nread, reset, conn>>
    /\ UNCHANGED <<topicVars, kvVars, frameVars, storeVars>>
    /\ UNCHANGED notRead

\* one poll of Stream::poll_next; an item it yields goes to the caller
FramedPull ==
    /\ Len(pulled) <= MaxFrames
    /\ Pull("s1")
    /\ LET p == poll_next("CommandResponse", read_buf["s1"], inb["s1"], peerClosed["s1"])
       IN  pulled' = IF p.res.ready THEN Append(pulled, p.res.item) ELSE pulled
    /\ UNCHANGED <<wire, sentMsgs>>
    /\ UNCHANGED notRead

InitRead ==
    /\ wire = <<>>
    /\ sentMsgs = <<>>
    /\ pulled = <<>>

\* a client pulling from a stream whose bytes arrive in pieces
NextRead ==
    \/ \E m \in ResponseMessages : PeerSend(m)
    \/ \E n \in 1..(LENGTH_BYTES + MAX_FRAME) : Deliver(n)
    \/ FramedPull

\* --------------------------------------------- the Sink side (stream.rs)
\* answers of poll_write of the underlying stream handed to one poll of the
\* Sink before the stream is not ready
MaxWrites == 1

\* what the underlying stream answers: not ready, an error, or ready
\* (poll_write: the number of bytes it took, one or all it was offered)
NotReady == [k |-> "pending"]
Failed == [k |-> "err"]
Took(n) == [k |-> "n", n |-> n]
TookAll == [k |-> "all"]
WriteResults == {NotReady, Failed, Took(1), TookAll}
WriteSeqs == UNION {[1..n -> WriteResults] : n \in 0..MaxWrites}
\* poll_flush and poll_shutdown of the underlying stream
StreamResults == {NotReady, Failed, TookAll}
PollOf(r) ==
    IF r.k = "pending" THEN Pending
    ELSE IF r.k = "err" THEN Ready(IoError)
    ELSE Ready([ok |-> TRUE])

\* the messages submitted: one below and one above the compression threshold
SinkMessages ==
    {[kind |-> "CommandResponse", data |-> d] : d \in {<<1>>, Uniform(COMPRESSION_THRESHOLD)}}

\* the answer to the next poll_write; a poll that has used up the answers
\* listed finds the stream not ready
NextResult(results) == IF results = <<>> THEN NotReady ELSE Head(results)
Rest(results) == IF results = <<>> THEN <<>> ELSE Tail(results)
Min(a, b) == IF a < b THEN a ELSE b

\* Sink::start_send: item.encode_frame(&mut this.write_buf)
start_send(buf, item) == encode_frame(item, buf)

\* poll_flush, the loop of lines 75-78: `written += n` for every poll_write
\* that is ready
RECURSIVE FlushLoop(_, _, _, _)
FlushLoop(buf, w, writes, out) ==
    IF w # Len(buf)
    THEN LET r == NextResult(writes)
         IN  IF r.k \in {"pending", "err"}
             THEN [res |-> PollOf(r), written |-> w, out |-> out]
             ELSE LET n == IF r.k = "all" THEN Len(buf) - w ELSE Min(r.n, Len(buf) - w)
                  IN  FlushLoop(buf, w + n, Rest(writes),
                                out \o SubSeq(buf, w + 1, w + n))
    ELSE [res |-> Ready([ok |-> TRUE]), written |-> w, out |-> out]

WrittenNotReset(w) == w
\* poll_flush, line 82: this.written = 0
WrittenReset(w) == 0

\* Sink::poll_flush: the result, write_buf and written afterwards, and the
\* bytes the underlying stream took; fl is the answer of stream.poll_flush
poll_flush(buf, w, writes, fl) ==
    LET l == FlushLoop(buf, w, writes, <<>>)
    IN  IF ~l.res.ready \/ ~l.res.item.ok
        THEN [res |-> l.res, write_buf |-> buf, written |-> l.written, out |-> l.out]
        ELSE \* write_buf.clear(); written = 0; then stream.poll_flush(cx)
             [res |-> PollOf(fl), write_buf |-> <<>>, written |-> WrittenReset(l.written),
              out |-> l.out]

\* whether poll_close goes on to poll_shutdown after poll_flush returned res
ShutsDownAnyway(res) == TRUE
\* poll_close, line 90: ready!(this.poll_flush(cx))?
FlushedFirst(res) == res.ready /\ res.item.ok

\* Sink::poll_close: poll_flush, then poll_shutdown of the underlying stream
\* (sh is its answer)
poll_close(buf, w, writes, fl, sh) ==
    LET f == poll_flush(buf, w, writes, fl)
    IN  IF ~FlushedFirst(f.res)
        THEN [res |-> f.res, write_buf |-> f.write_buf, written |-> f.written,
              out |-> f.out, shutdown |-> FALSE]
        ELSE [res |-> PollOf(sh), write_buf |-> f.write_buf, written |-> f.written,
              out |-> f.out, shutdown |-> sh.k \notin {"pending", "err"}]

NoSinkCall == [op |-> "none"]
Closing == sinkLast.op = "close"

\* feed: poll_ready (always ready) and start_send(item)
StartSend(m) ==
    /\ ~Closing
    /\ Len(fed) < MaxFrames
    /\ LET e == start_send(write_buf, m)
       IN  /\ write_buf' = e.buf
           /\ sinkLast' = [op |-> "send", msg |-> m, before |-> write_buf, res |-> e.res]
    /\ fed' = Append(fed, m)
    /\ UNCHANGED <<wbWritten, shutdown>>
    /\ UNCHANGED <<topicVars, kvVars, frameVars, storeVars, streamVars, notSink>>

\* one poll of Sink::poll_flush
PollFlush(writes, fl) ==
    /\ ~Closing
    /\ LET f == poll_flush(write_buf, wbWritten, writes, fl)
       IN  /\ write_buf' = f.write_buf
           /\ wbWritten' = f.written
           /\ sinkLast' = [op |-> "flush", before |-> write_buf, written |-> wbWritten,
                           out |-> f.out, res |-> f.res]
    /\ UNCHANGED <<shutdown, fed>>
    /\ UNCHANGED <<topicVars, kvVars, frameVars, storeVars, streamVars, notSink>>

\* one poll of Sink::poll_close (stream.close().await polls until ready)
PollClose(writes, fl, sh) ==
    /\ ~shutdown
    /\ ~(Closing /\ sinkLast.res.ready)
    /\ LET c == poll_close(write_buf, wbWritten, writes, fl, sh)
       IN  /\ write_buf' = c.write_buf
           /\ wbWritten' = c.written
           /\ shutdown' = c.shutdown
           /\ sinkLast' = [op |-> "close", before |-> write_buf, written |-> wbWritten,
                           out |-> c.out, res |-> c.res,
                           polls |-> IF Closing THEN 2 ELSE 1]
    /\ UNCHANGED fed
    /\ UNCHANGED <<topicVars, kvVars, frameVars, storeVars, streamVars, notSink>>

InitSink ==
    /\ write_buf = <<>>
    /\ wbWritten = 0
    /\ shutdown = FALSE
    /\ fed = <<>>
    /\ sinkLast = NoSinkCall

\* a ProstStream used as a Sink over a stream that takes bytes in pieces
NextSink ==
    \/ \E m \in SinkMessages : StartSend(m)
    \/ \E writes \in WriteSeqs, fl \in StreamResults : PollFlush(writes, fl)
    \/ \E writes \in WriteSeqs, fl \in StreamResults, sh \in StreamResults :
            PollClose(writes, fl, sh)

\* ------------------------------------------------ SledDb (sleddb.rs)
\* table names and keys as strings of characters, some with ':' in them
SledTables == {<<"a">>, <<"a", ":">>}
SledKeys == {<<"a">>, <<":", "a">>}

\* SledDb::get_full_key: format!("{}:{}", table, key)
get_full_key(t, k) == t \o <<":">> \o k

\* scan_prefix: whether a key of the tree begins with the prefix
IsPrefix(pre, str) == Len(pre) <= Len(str) /\ SubSeq(str, 1, Len(pre)) = pre

\* ivec_to_key: key.split(':').last().unwrap(), what follows the last ':'
ivec_to_key(ivec) ==
    LET colons == {i \in 1..Len(ivec) : ivec[i] = ":"}
    IN  IF colons = {} THEN ivec
        ELSE SubSeq(ivec, (CHOOSE i \in colons : \A j \in colons : j <= i) + 1, Len(ivec))

\* impl Storage for SledDb: the tree after the call and the Ok(..) result
SledGet(db, t, k) ==
    LET key == get_full_key(t, k)
    IN  [db |-> db, res |-> IF key \in DOMAIN db THEN Some(db[key]) ELSE None]
SledSet(db, t, k, v) ==
    LET key == get_full_key(t, k)
    IN  [db |-> MapPut(db, key, v),
         res |-> IF key \in DOMAIN db THEN Some(db[key]) ELSE None]
SledContains(db, t, k) ==
    [db |-> db, res |-> get_full_key(t, k) \in DOMAIN db]
SledDel(db, t, k) ==
    LET key == get_full_key(t, k)
    IN  [db |-> MapDel(db, key),
         res |-> IF key \in DOMAIN db THEN Some(db[key]) ELSE None]
\* get_all and get_iter: scan_prefix(get_full_key(table, "")), each item
\* made a KvPair by From<Result<(IVec, IVec), sled::Error>>; the Vec as the
\* set of its pairs
SledGetAll(db, t) ==
    LET prefix == get_full_key(t, <<>>)
    IN  [db |-> db,
         res |-> {KvPair(ivec_to_key(key), db[key]) :
                     key \in {x \in DOMAIN db : IsPrefix(prefix, x)}}]

SledRequests ==
    {[op |-> "set", table |-> t, key |-> k, value |-> v] :
        t \in SledTables, k \in SledKeys, v \in KvValues}
    \cup {[op |-> "del", table |-> t, key |-> k] : t \in SledTables, k \in SledKeys}

\* one call of the Storage trait on the SledDb
SledStorageCall(db, c) ==
    CASE c.op = "get" -> SledGet(db, c.table, c.key)
      [] c.op = "set" -> SledSet(db, c.table, c.key, c.value)
      [] c.op = "contains" -> SledContains(db, c.table, c.key)
      [] c.op = "del" -> SledDel(db, c.table, c.key)
      [] c.op \in {"get_all", "get_iter"} -> SledGetAll(db, c.table)

\* and on the MemTable (get_iter collects the pairs get_all returns)
MemStorageCall(tbl, c) ==
    IF c.op = "get_iter" THEN StorageCall(tbl, [c EXCEPT !.op = "get_all"])
    ELSE StorageCall(tbl, c)

NoSledCall == [n |-> 0, op |-> "none"]

\* the same set or del on both engines
SledCall(c) ==
    /\ sledLast.n < MaxStoreCalls
    /\ sled' = SledStorageCall(sled, c).db
    /\ sledMem' = MemStorageCall(sledMem, c).tables
    /\ sledLast' = [n |-> sledLast.n + 1, op |-> c.op, call |-> c,
                    sled |-> sled, mem |-> sledMem]
    /\ UNCHANGED <<topicVars, kvVars, frameVars, storeVars, streamVars, notSled>>

InitSled ==
    /\ sled = EmptyMap
    /\ sledMem = EmptyMap
    /\ sledLast = NoSledCall

NextSled == \E c \in SledRequests : SledCall(c)

\* ------------------------------ cloned Service handles (service/mod.rs)
\* tasks, each with a clone of one Service (Arc::clone of the ServiceInner
\* that owns the store), each making one call
MaxTasks == 3
LinTasks == 1..MaxTasks

\* the single-key requests of task i on one (table, key); the value a task
\* writes is its own
LinRequests(i) ==
    {[kind |-> "Hset", table |-> "t1",
      pair |-> Some([key |-> "k1", value |-> Some(Integer(i))])],
     [kind |-> "Hdel", table |-> "t1", key |-> "k1"],
     [kind |-> "Hget", table |-> "t1", key |-> "k1"]}

LinIdle == [pc |-> "idle"]

\* the task calls cloned.execute(request)
LinInvoke(i, req) ==
    /\ linTask[i].pc = "idle"
    /\ linTask' = [linTask EXCEPT ![i] =
                      [pc |-> "called", req |-> req,
                       after |-> {j \in LinTasks : linTask[j].pc = "returned"}]]
    /\ UNCHANGED <<topicVars, kvVars, frameVars, storeVars, streamVars, notLin>>

\* Service::execute, line 72: dispatch on the shared store.  The Ref of
\* get_or_create_table keeps the table's shard locked for the one call the
\* command makes, so that call is one step
LinExecute(i) ==
    /\ linTask[i].pc = "called"
    /\ LET r == dispatch(linTask[i].req, tables, <<>>)
           o == ExecuteHooks(hooks, linTask[i].req, tables, r.tables, r.resp)
       IN  /\ tables' = r.tables
           /\ linTask' = [linTask EXCEPT ![i] =
                             [pc |-> "executed", req |-> @.req, after |-> @.after,
                              resp |-> o.resp]]
    /\ UNCHANGED <<kvLast, kvBefore, lastSet, kvErr, hooks, hookLog>>
    /\ UNCHANGED <<topicVars, frameVars, storeVars, streamVars, notLin>>

\* the task has the response: response.next().await
LinReturn(i) ==
    /\ linTask[i].pc = "executed"
    /\ linTask' = [linTask EXCEPT ![i].pc = "returned"]
    /\ UNCHANGED <<topicVars, kvVars, frameVars, storeVars, streamVars, notLin>>

InitLin == linTask = [i \in LinTasks |-> LinIdle]

NextLin ==
    \/ \E i \in LinTasks : \E req \in LinRequests(i) : LinInvoke(i, req)
    \/ \E i \in LinTasks : LinExecute(i)
    \/ \E i \in LinTasks : LinReturn(i)

\* ------------------------------------------------------- StreamResult::new
\* network/stream_result.rs
\* the Integers a Value may carry: in and out of the range of u32 (of
\* HeaderBits bits here)
SrIntegers == {1, 2, 0 - 1, 2 ^ HeaderBits + 1}
SrValues == {Integer(i) : i \in SrIntegers} \cup {Str(1), Null}
SrValueLists == {<<>>} \cup {<<v>> : v \in SrValues}
                   \cup {<<v, Integer(2)>> : v \in {Integer(1), Str(1)}}
\* the items of a Stream<Item = Result<CommandResponse, KvError>>
SrOk(r) == [ok |-> TRUE, resp |-> r]
SrErr == [ok |-> FALSE, resp |-> DefaultResponse]
SrFirstItems ==
    {SrOk([DefaultResponse EXCEPT !.status = st, !.values = vs]) :
        st \in {200, 404}, vs \in SrValueLists} \cup {SrErr}
SrLaterItems == {SrOk(FromValue(Str(1))), SrOk(FromValue(Str(2))), SrErr}
SrStreams ==
    {<<>>} \cup {<<f>> \o rest : f \in SrFirstItems,
                    rest \in {<<>>} \cup {<<a>> : a \in SrLaterItems}
                               \cup {<<a, b>> : a, b \in SrLaterItems}}

\* what new gives: Ok(StreamResult {id, inner}), Err(KvError::Internal(msg)),
\* or a panic
SrNone == [kind |-> "none", id |-> 0, inner |-> <<>>, msg |-> ""]
SrReturnsOk(id, inner) == [SrNone EXCEPT !.kind = "ok", !.id = id, !.inner = inner]
SrReturnsErr(msg) == [SrNone EXCEPT !.kind = "err", !.msg = msg]
SrPanics == [SrNone EXCEPT !.kind = "panic"]

\* impl TryFrom<&Value> for i64
TryIntoI64(v) == IF v.t = "int" THEN [ok |-> TRUE, i |-> v.v] ELSE [ok |-> FALSE, i |-> 0]
\* StreamResult::new(stream); `id as u32` is AsU32
StreamResultNew(stream) ==
    IF Len(stream) > 0 /\ stream[1].ok /\ stream[1].resp.status = 200
    THEN LET v == stream[1].resp.values
         IN  IF v = <<>>
             THEN SrReturnsErr("Invalid stream - Did not receive subscription id")
             ELSE IF TryIntoI64(v[1]).ok
                  THEN SrReturnsOk(AsU32(TryIntoI64(v[1]).i), Tail(stream))
                  ELSE SrPanics
    ELSE SrReturnsErr("Invalid stream")

SrIdle == [called |-> FALSE, stream |-> <<>>, result |-> SrNone, got |-> <<>>,
           ended |-> FALSE]

\* ProstClientStream::execute_streaming: StreamResult::new(stream).await
ExecuteStreaming(stream) ==
    /\ ~sres.called
    /\ sres' = [SrIdle EXCEPT !.called = TRUE, !.stream = stream,
                              !.result = StreamResultNew(stream)]
    /\ UNCHANGED <<topicVars, kvVars, frameVars, storeVars, streamVars, notSres>>

\* the caller takes the next item of the StreamResult (Deref to inner)
SrNext ==
    /\ sres.called /\ sres.result.kind = "ok" /\ ~sres.ended
    /\ IF sres.result.inner = <<>>
       THEN sres' = [sres EXCEPT !.ended = TRUE]
       ELSE sres' = [sres EXCEPT !.got = Append(@, Head(sres.result.inner)),
                                 !.result.inner = Tail(@)]
    /\ UNCHANGED <<topicVars, kvVars, frameVars, storeVars, streamVars, notSres>>

InitSres == sres = SrIdle

NextSres ==
    \/ \E stream \in SrStreams : ExecuteStreaming(stream)
    \/ SrNext

InitExt ==
    InitRead /\ InitSink /\ InitSled /\ InitLin /\ InitSres /\ unsubStored = {}

Init == InitTopic /\ InitKV /\ InitFrame /\ InitStore /\ InitStream /\ InitExt

\* a client's ProstStream
SpecClient == Init /\ [][NextClient]_vars
\* the server loops of one multiplexed connection
SpecServer == Init /\ [][NextServer]_vars

\* the Storage trait on MemTable handles
SpecStore == Init /\ [][NextStore]_vars

\* the frame codec on its own
SpecFrame == Init /\ [][NextFrame]_vars

\* the framed stream read over a transport that delivers bytes in pieces
SpecRead == Init /\ [][NextRead]_vars

\* the framed stream written to a transport that takes bytes in pieces
SpecSink == Init /\ [][NextSink]_vars

\* the Storage trait on a SledDb and a MemTable side by side
SpecSled == Init /\ [][NextSled]_vars

\* concurrent single-key commands through clones of one Service
SpecLin == Init /\ [][NextLin]_vars

\* StreamResult::new over every first item and the items that follow
SpecSres == Init /\ [][NextSres]_vars

NextKV ==
    \/ \E req \in KvRequests :
            \E ord \in (IF req.kind = "Hgetall" THEN KeyOrders ELSE {<<>>}) :
                Execute(req, ord)
    \/ SendStream

SpecKV == Init /\ [][NextKV]_vars

\* the storage commands on a store whose engine may fail (the Storage trait
\* returns Result; SledDb passes the errors of sled on)
NextKVFault ==
    \/ NextKV
    \/ \E req \in KvRequests : ExecuteStoreError(req)

SpecKVFault == Init /\ [][NextKVFault]_vars

\* the services built with hooks: the registration of
\* event_registration_should_work with one more hook of each mutating and
\* observing kind, and the same hooks registered the other way round
HookConfigs ==
    {[on_received |-> <<"a", "b">>, on_executed |-> <<"c", "c2">>,
      on_before_send |-> <<"d", "tag">>, on_after_send |-> <<"e">>],
     [on_received |-> <<"b", "a">>, on_executed |-> <<"c2", "c">>,
      on_before_send |-> <<"tag", "d">>, on_after_send |-> <<"e", "e2">>]}

\* ServiceInner::new(..).fn_received(..) .. .into()
InitHooks ==
    /\ InitTopic
    /\ tables = EmptyMap
    /\ kvLast = NoLast
    /\ kvBefore = EmptyMap
    /\ lastSet = [tk \in TableNames \X Keys |-> None]
    /\ kvErr = FALSE
    /\ hooks \in HookConfigs
    /\ hookLog = <<>>
    /\ InitFrame
    /\ InitStore
    /\ InitStream
    /\ InitExt

\* the requests of the services with hooks: those on table "t1", and the
\* request with no variant set
NextHooks ==
    \/ \E req \in {q \in KvRequests : q.kind # "None" => q.table = "t1"} :
            \E ord \in (IF req.kind = "Hgetall" THEN KeyOrders ELSE {<<>>}) :
                Execute(req, ord)
    \/ SendStream

SpecHooks == InitHooks /\ [][NextHooks]_vars

\* the tasks subscribe and publish spawn
TaskStep ==
    \/ \E p \in 1..Len(pub) : PublishSnapshot(p)
    \/ \E p \in 1..Len(pub), id \in IdRange : PublishSend(p, id)
    \/ \E p \in 1..Len(pub) : PublishWaitErr(p)
    \/ \E id \in IdRange : IdTaskSend(id)
    \/ \E id \in IdRange : IdTaskWaitErr(id)

CallStep(via) ==
    \/ \E c \in Callers, name \in TopicNames : SubscribeEntry(c, name, via)
    \/ \E c \in Callers : SubscribeInsert(c)
    \/ \E c \in Callers, name \in TopicNames, id \in IdRange :
            UnsubscribeEntry(c, name, id, via)
    \/ \E c \in Callers : UnsubscribeRemoveTopic(c)
    \/ \E c \in Callers : UnsubscribeRemoveSub(c)
    \/ \E c \in Callers, name \in TopicNames : Publish(c, name, via)

NextTopic ==
    \/ CallStep("topic")
    \/ TaskStep
    \/ \E p \in 1..Len(pub) : PublishGranted(p)
    \/ \E id \in IdRange : IdTaskGranted(id)
    \/ \E id \in IdRange : Recv(id)
    \/ \E id \in IdRange : DropReceiver(id)

NextService ==
    \/ CallStep("service")
    \/ \E c \in Callers : ServiceDropReceiver(c)
    \/ TaskStep

\* one connection whose requests are the pub/sub requests and the request
\* with no variant set, each through Service::execute
NextInvalid ==
    \/ \E name \in TopicNames : SubscribeEntry("c1", name, "service")
    \/ SubscribeInsert("c1")
    \/ ServiceDropReceiver("c1")
    \/ \E name \in TopicNames, id \in IdRange : UnsubscribeEntry("c1", name, id, "service")
    \/ UnsubscribeRemoveTopic("c1")
    \/ UnsubscribeRemoveSub("c1")
    \/ \E name \in TopicNames : Publish("c1", name, "service")
    \/ TaskStep
    \/ call["c1"].pc = "idle" /\ Execute([kind |-> "None"], <<>>)
    \/ SendStream

SpecTopic == Init /\ [][NextTopic]_vars
SpecService == Init /\ [][NextService]_vars
SpecInvalid == Init /\ [][NextInvalid]_vars

\* ================================================================ claims
\* position of x in the sequence q (0: not in it)
Pos(q, x) == IF \E i \in 1..Len(q) : q[i] = x
             THEN CHOOSE i \in 1..Len(q) : q[i] = x ELSE 0

\* what table t holds under k in the store tbl, read without creating t
Stored(tbl, t, k) ==
    IF t \in DOMAIN tbl /\ k \in DOMAIN tbl[t] THEN Some(tbl[t][k]) ELSE None

\* the response with status 200 and the one value v
Ok200(v) == [status |-> 200, message |-> <<>>, values |-> <<v>>, pairs |-> <<>>]

\* C1: the stream Service::execute returns for a Subscribe is the stream of
\* the subscription's receiver (the id response first, then what is
\* published), not a stream of one fixed response.
C1_SubscribeReturnsReceiver ==
    \A c \in Callers :
        ret[c].kind = "Subscribe" => ret[c].stream = ReceiverStream(ret[c].id)

\* C2: of the items a subscriber has received, the first is the id response
\* of the subscription and no later one is; a published message is never
\* received ahead of the id.
C2_IdIsFirstItem ==
    \A id \in IdRange :
        \A i \in 1..chan[id].nread :
            (i = 1) <=> (chan[id].log[i] = IdResponse(id))

\* C3: the stream Service::execute returns for a Publish or an Unsubscribe
\* holds exactly one response, and its status is 200.
C3_PubUnsubAnswer200 ==
    \A c \in Callers :
        ret[c].kind \in {"Publish", "Unsubscribe"} =>
            /\ ret[c].stream.rx = 0
            /\ Len(ret[c].stream.items) = 1
            /\ ret[c].stream.items[1].status = 200

C5_FullQueueIsSkipped ==
    \A p \in 1..Len(pub) :
        pub[p].st = "wait" =>
            \A b \in pub[p].ids \ {pub[p].cur} :
                ~(b \in subscriptions /\ SendOutcome(b) = "push")

\* C6: of two messages a subscriber has received, the one whose publish took
\* its snapshot first was received first.
C6_SnapshotOrderIsDeliveryOrder ==
    \A id \in IdRange :
        \A i, j \in 1..chan[id].nread :
            \A p, q \in 1..Len(pub) :
                ( /\ i < j
                  /\ chan[id].log[i] = PubResponse(p)
                  /\ chan[id].log[j] = PubResponse(q) )
                => Pos(snapSeq, p) < Pos(snapSeq, q)

\* C7: once the publishes have run to their end, an id for which a publish
\* failed to enqueue (its receiver was dropped) is no longer a key of
\* subscriptions and is in no topic's set of ids.
C7_StaleSenderRemoved ==
    ( /\ \A p \in 1..Len(pub) : pub[p].st = "done"
      /\ \A c \in Callers : call[c].pc = "idle" )
    => \A id \in sendFailed :
           /\ id \notin subscriptions
           /\ \A t \in DOMAIN topics : id \notin topics[t]

\* C8: the ids allocated are 1 first and then strictly increasing, so no two
\* subscribe calls, finished or in progress, have the same id.
C8_IdsUniqueIncreasing ==
    /\ Len(allocated) > 0 => allocated[1] = 1
    /\ \A i, j \in 1..Len(allocated) : i < j => allocated[i] < allocated[j]
    /\ \A c, d \in Callers :
           (c # d /\ call[c].pc = "sub_insert" /\ call[d].pc = "sub_insert")
           => call[c].id # call[d].id

\* C8 witness: two subscribe calls in progress at once, each with its id.
C8_Witness ==
    /\ Len(allocated) = 2
    /\ \A c \in Callers : call[c].pc = "sub_insert"

\* C9: whatever the topic and the id, known or not, unsubscribe run a second
\* time with the same arguments leaves topics and subscriptions as the first
\* run left them.
C9_UnsubscribeIdempotent ==
    \A name \in TopicNames \cup {"unknown"}, id \in 0..(MaxSubs + 1) :
        LET once == UnsubscribeSeq(topics, subscriptions, name, id)
        IN  UnsubscribeSeq(once.topics, once.subscriptions, name, id) = once

\* C9 witness: a second unsubscribe of a subscription is under way after the
\* first one removed the subscription and its topic.
C9_Witness ==
    \E c \in Callers :
        /\ call[c].pc \in {"unsub_topic", "unsub_subs"}
        /\ <<call[c].topic, call[c].id>> \in unsubDone
        /\ chan[call[c].id].rx # "none"
        /\ call[c].id \notin subscriptions
        /\ call[c].topic \notin DOMAIN topics

\* C10: an Hset with a pair answers 200 with the value its key held before
\* (null if none), and an Hget of a key whose last write was an Hset answers
\* 200 with the value of that Hset.
C10_HsetThenHget ==
    /\ (kvLast.req.kind = "Hset" /\ kvLast.req.pair.some) =>
           kvLast.stream =
               StreamOnce(Ok200(UnwrapOrDefault(
                   Stored(kvBefore, kvLast.req.table, kvLast.req.pair.val.key))))
    /\ (kvLast.req.kind = "Hget"
            /\ lastSet[<<kvLast.req.table, kvLast.req.key>>].some) =>
           kvLast.stream =
               StreamOnce(Ok200(lastSet[<<kvLast.req.table, kvLast.req.key>>].val))

\* C10 witness: an Hget answers the value of the Hset before it, in a table
\* that holds another key as well.
C10_Witness ==
    /\ kvLast.req.kind = "Hget"
    /\ lastSet[<<kvLast.req.table, kvLast.req.key>>] = Some(Str(1))
    /\ kvLast.stream = StreamOnce(Ok200(Str(1)))
    /\ \E k \in Keys \ {kvLast.req.key} :
           Stored(tables, kvLast.req.table, k) = Some(Integer(10))

\* the (table, key, value) triples a store holds
Contents(tbl) ==
    UNION {{<<t, k, tbl[t][k]>> : k \in DOMAIN tbl[t]} : t \in DOMAIN tbl}

\* the one response of the stream returned for the last storage request
LastResponse == kvLast.stream.items[1]

\* C11: an Hget of a key that is not present answers one response with
\* status 404, the not-found message and no values or pairs, and the store
\* holds after it what it held before; every other hash command answers 200
\* whether its keys are present or not.
C11_HgetMissingIs404 ==
    /\ (kvLast.req.kind = "Hget"
            /\ Stored(kvBefore, kvLast.req.table, kvLast.req.key) = None) =>
           /\ kvLast.stream =
                  StreamOnce([status |-> 404,
                              message |-> NotFoundMessage(kvLast.req.table, kvLast.req.key),
                              values |-> <<>>, pairs |-> <<>>])
           /\ LastResponse.message[1] = "Not found"
           /\ Contents(tables) = Contents(kvBefore)
    /\ kvLast.req.kind \in {"Hset", "Hgetall", "Hmget", "Hmset", "Hdel", "Hmdel",
                            "Hexist", "Hmexist"} =>
           /\ Len(kvLast.stream.items) = 1
           /\ LastResponse.status = 200

\* C11 witness: an Hget of a missing key of a table that holds another key.
C11_Witness ==
    /\ kvLast.req.kind = "Hget"
    /\ Stored(kvBefore, kvLast.req.table, kvLast.req.key) = None
    /\ LastResponse.status = 404
    /\ \E k \in Keys : Stored(tables, kvLast.req.table, k) # None

\* C12: an Hdel answers 200 with the value it removed (null if the key was
\* absent) and leaves the key absent; an Hget run next answers 404, and an
\* Hdel run next answers null and leaves the store as it is.
C12_HdelIdempotent ==
    /\ kvLast.req.kind = "Hdel" =>
           /\ kvLast.stream =
                  StreamOnce(Ok200(UnwrapOrDefault(
                      Stored(kvBefore, kvLast.req.table, kvLast.req.key))))
           /\ Stored(tables, kvLast.req.table, kvLast.req.key) = None
           /\ Contents(tables) =
                  Contents(kvBefore) \ {<<kvLast.req.table, kvLast.req.key, v>> :
                                           v \in KvValues \cup {Null}}
    /\ \A t \in TableNames, k \in Keys :
           LET del == [kind |-> "Hdel", table |-> t, key |-> k]
               get == [kind |-> "Hget", table |-> t, key |-> k]
               first == dispatch(del, tables, <<>>)
               second == dispatch(del, first.tables, <<>>)
           IN  /\ dispatch(get, first.tables, <<>>).resp.status = 404
               /\ second.resp = Ok200(Null)
               /\ second.tables = first.tables

\* C12 witness: an Hdel has removed a key that held a value.
C12_Witness ==
    /\ kvLast.req.kind = "Hdel"
    /\ Stored(kvBefore, kvLast.req.table, kvLast.req.key) = Some(Integer(10))
    /\ LastResponse = Ok200(Integer(10))
    /\ Stored(tables, kvLast.req.table, kvLast.req.key) = None

\* the indices before i at which the list of keys ks holds ks[i]
Earlier(ks, i) == {j \in 1..(i - 1) : ks[j] = ks[i]}
Max(S) == CHOOSE x \in S : \A y \in S : y <= x
\* the keys of a list of pairs, in list order
PairKeys(pairs) == [i \in 1..Len(pairs) |-> pairs[i].key]
\* the value element i of an Hmset writes
PairValue(pairs, i) == UnwrapOrDefault(pairs[i].value)
\* what key pairs[i].key held just before element i of an Hmset on the store
\* tbl is written: the value of the nearest earlier element with that key, or
\* else what tbl held
BeforeElement(tbl, t, pairs, i) ==
    IF Earlier(PairKeys(pairs), i) # {}
    THEN PairValue(pairs, Max(Earlier(PairKeys(pairs), i)))
    ELSE UnwrapOrDefault(Stored(tbl, t, pairs[i].key))

\* C13: an Hmset writes its pairs in list order: values[i] is what the key of
\* pair i held just before pair i was written (the value of an earlier pair
\* with the same key, if there is one), every key of the list ends with the
\* value of its last pair, and no other key changes.
C13_HmsetInListOrder ==
    kvLast.req.kind = "Hmset" =>
        LET pairs == kvLast.req.pairs
            t == kvLast.req.table
        IN  /\ Len(LastResponse.values) = Len(pairs)
            /\ \A i \in 1..Len(pairs) :
                   LastResponse.values[i] = BeforeElement(kvBefore, t, pairs, i)
            /\ \A i \in 1..Len(pairs) :
                   (\A j \in (i + 1)..Len(pairs) : pairs[j].key # pairs[i].key)
                   => Stored(tables, t, pairs[i].key) = Some(PairValue(pairs, i))
            /\ \A t2 \in TableNames, k \in Keys :
                   (t2 # t \/ k \notin KeysOf(pairs))
                   => Stored(tables, t2, k) = Stored(kvBefore, t2, k)

\* C13 witness: an Hmset with one key twice, on a store that held the key:
\* the second value answered is the first pair's value, and the key ends
\* with the second pair's value.
C13_Witness ==
    /\ kvLast.req.kind = "Hmset"
    /\ Len(kvLast.req.pairs) = 2
    /\ kvLast.req.pairs[1].key = kvLast.req.pairs[2].key
    /\ kvLast.req.pairs[1].value = Some(Integer(10))
    /\ kvLast.req.pairs[2].value = Some(Str(1))
    /\ LastResponse.values = <<Str(1), Integer(10)>>
    /\ Stored(tables, kvLast.req.table, kvLast.req.pairs[1].key) = Some(Str(1))

\* C14: Hmget, Hmset, Hmdel and Hmexist answer status 200 with one value
\* per element of the input list, in input order: Hmget the value held or
\* null, Hmdel the value removed or null (null for a key the list removed
\* before), Hmexist whether the key is held, Hmset the value held before.
C14_OneValuePerElement ==
    LET req == kvLast.req
        t == req.table
    IN  /\ req.kind \in {"Hmget", "Hmdel", "Hmexist"} =>
               /\ kvLast.stream = StreamOnce(LastResponse)
               /\ LastResponse.status = 200
               /\ LastResponse.pairs = <<>>
               /\ Len(LastResponse.values) = Len(req.keys)
               /\ \A i \in 1..Len(req.keys) :
                      LastResponse.values[i] =
                          CASE req.kind = "Hmget" ->
                                   UnwrapOrDefault(Stored(kvBefore, t, req.keys[i]))
                            [] req.kind = "Hmdel" ->
                                   IF Earlier(req.keys, i) # {} THEN Null
                                   ELSE UnwrapOrDefault(Stored(kvBefore, t, req.keys[i]))
                            [] OTHER ->
                                   Bool(Stored(kvBefore, t, req.keys[i]).some)
        /\ req.kind = "Hmset" =>
               /\ kvLast.stream = StreamOnce(LastResponse)
               /\ LastResponse.status = 200
               /\ LastResponse.pairs = <<>>
               /\ Len(LastResponse.values) = Len(req.pairs)
               /\ \A i \in 1..Len(req.pairs) :
                      LastResponse.values[i] = BeforeElement(kvBefore, t, req.pairs, i)

\* C14 witness: an Hmdel of one held key twice answers the value, then null.
C14_Witness ==
    /\ kvLast.req.kind = "Hmdel"
    /\ Len(kvLast.req.keys) = 2
    /\ kvLast.req.keys[1] = kvLast.req.keys[2]
    /\ Stored(kvBefore, kvLast.req.table, kvLast.req.keys[1]) = Some(Integer(10))
    /\ LastResponse.values = <<Integer(10), Null>>

\* C15: the step that executes a request with no variant set returns a
\* stream of exactly one response, with status 400 and no values or pairs,
\* and changes neither the store nor anything of the broadcaster.
C15_InvalidCommand ==
    [][(kvLast = NoLast /\ kvLast'.req.kind = "None") =>
           /\ Len(kvLast'.stream.items) = 1
           /\ kvLast'.stream.rx = 0
           /\ kvLast'.stream.items[1].status = 400
           /\ kvLast'.stream.items[1].values = <<>>
           /\ kvLast'.stream.items[1].pairs = <<>>
           /\ tables' = tables
           /\ UNCHANGED <<topics, subscriptions, NEXT_ID, chan, idTask, pub>>]_vars

\* C15 witness: a request with no variant set was executed while the
\* broadcaster held a subscription and a publish task was running.
C15_Witness ==
    /\ kvLast.req.kind = "None"
    /\ kvLast.stream.items[1].status = 400
    /\ subscriptions # {}
    /\ \E p \in 1..Len(pub) : pub[p].st = "loop"

\* C16: a hash command during which the storage engine returned an error
\* answers one response with status 500, the error text in message and no
\* values or pairs.
C16_StorageErrorIs500 ==
    kvErr =>
        kvLast.stream =
            StreamOnce([status |-> 500, message |-> StorageErrorMessage,
                        values |-> <<>>, pairs |-> <<>>])

\* the entries of the hook log in one phase, in firing order
RECURSIVE InPhase(_, _)
InPhase(log, phase) ==
    IF log = <<>> THEN <<>>
    ELSE (IF Head(log).phase = phase THEN <<Head(log)>> ELSE <<>>)
         \o InPhase(Tail(log), phase)
\* the phases of the entries, in firing order
Phases(log) == [i \in 1..Len(log) |-> log[i].phase]
\* the names of the entries
HookNames(log) == [i \in 1..Len(log) |-> log[i].hook]
\* the response of the dispatcher: what the first on_executed hook was given
Dispatched == InPhase(hookLog, "executed")[1].args

\* C17: for a storage command the hooks fire in three blocks, on_received,
\* on_executed, on_before_send, each in registration order; the on_received
\* hooks run with the store as it was before the request; every on_executed
\* hook is given the dispatcher's response, which no on_before_send hook
\* has touched yet; the response delivered is that response after the
\* on_before_send hooks, in order (status 201 when one of them sets it).
C17_HookOrder ==
    kvLast # NoLast =>
        LET rec == InPhase(hookLog, "received")
            exe == InPhase(hookLog, "executed")
            bef == InPhase(hookLog, "before_send")
        IN  /\ hookLog = rec \o exe \o bef
            /\ HookNames(rec) = hooks.on_received
            /\ HookNames(exe) = hooks.on_executed
            /\ HookNames(bef) = hooks.on_before_send
            /\ \A i \in 1..Len(rec) :
                   rec[i].args = kvLast.req /\ rec[i].store = kvBefore
            /\ \A i \in 1..Len(exe) :
                   /\ \E ord \in KeyOrders :
                          exe[i].args = dispatch(kvLast.req, kvBefore, ord).resp
                   /\ exe[i].args = Dispatched
                   /\ exe[i].store = tables
            /\ bef[1].args = Dispatched
            /\ \A i \in 2..Len(bef) :
                   bef[i].args = ApplyHook(bef[i - 1].hook, bef[i - 1].args)
            /\ LastResponse = ApplyHook(bef[Len(bef)].hook, bef[Len(bef)].args)
            /\ LastResponse.status = 201
            /\ LastResponse.values = Dispatched.values
            /\ LastResponse.pairs = Dispatched.pairs

\* C17 witness: an Hset that replaced a value went through the hooks
\* registered as "tag" then "d": the response delivered has status 201 and
\* the message "tag" wrote when the status still was 200.
C17_Witness ==
    /\ kvLast.req.kind = "Hset"
    /\ hooks.on_before_send = <<"tag", "d">>
    /\ Len(hookLog) = 6
    /\ Dispatched = Ok200(Integer(10))
    /\ LastResponse = [Ok200(Integer(10)) EXCEPT !.status = 201,
                                                 !.message = <<"status", 200>>]

\* C18: once a response has been sent, every on_after_send hook has been
\* called, once each, in registration order.
C18_AfterSendFired ==
    (hookLog # <<>> /\ hookLog[1] = Sent) =>
        /\ Len(hookLog) = 1 + Len(hooks.on_after_send)
        /\ \A i \in 1..Len(hooks.on_after_send) :
               /\ hookLog[i + 1].phase = "after_send"
               /\ hookLog[i + 1].hook = hooks.on_after_send[i]

\* The payload of the frame of m: the serialized message, or above the
\* threshold its gzip form.
FramePayload(m) ==
    IF encoded_len(m) > COMPRESSION_THRESHOLD THEN GzEncode(MessageEncode(m))
    ELSE MessageEncode(m)
\* The length field of a header can hold the length of the payload of m.
LengthFits(m) == Len(FramePayload(m)) < COMPRESSION_BIT
RoundTrip ==
    /\ fdec.res.ok
    /\ fdec.res.msg = fenc.msg
    /\ fbuf = <<>>

HighBit(header) == header \div (2 ^ (HeaderBits - 1))
LowBits(header) == header % (2 ^ (HeaderBits - 1))
\* the buffer holds the frame encode_frame has just written
Framed == fenc # NoFrame /\ fenc.res.ok /\ fdec = NoFrame
HeaderMatches ==
    LET N == encoded_len(fenc.msg)
        header == get_u32(fbuf)
        payload == Advance(fbuf, LENGTH_BYTES)
    IN  /\ N <= COMPRESSION_THRESHOLD =>
            /\ HighBit(header) = 0
            /\ LowBits(header) = N
        /\ N > COMPRESSION_THRESHOLD =>
            /\ HighBit(header) = 1
            /\ payload = GzEncode(MessageEncode(fenc.msg))
            /\ LowBits(header) = Len(payload)
        /\ Len(fbuf) = LENGTH_BYTES + LowBits(header)

C21_TooLargeRefused ==
    fenc # NoFrame =>
        /\ encoded_len(fenc.msg) > MAX_FRAME - 1 =>
            /\ fenc.res = FrameError
            /\ fbuf = <<>>
        /\ (fenc.res.ok /\ fdec = NoFrame) =>
            LowBits(get_u32(fbuf)) = Len(fbuf) - LENGTH_BYTES

\* C22: once a MemTable handle has been cloned, get, contains and get_all
\* return the same results through the clone and through the original,
\* whatever set and del calls were made through either.
C22_CloneSharesState ==
    mem["h2"].exists =>
        \A t \in TableNames :
            /\ StorageCall(TablesOf(mem, "h1"), [op |-> "get_all", table |-> t]).res
                = StorageCall(TablesOf(mem, "h2"), [op |-> "get_all", table |-> t]).res
            /\ \A k \in Keys :
                /\ MemGet(TablesOf(mem, "h1"), t, k).res = MemGet(TablesOf(mem, "h2"), t, k).res
                /\ MemContains(TablesOf(mem, "h1"), t, k).res
                    = MemContains(TablesOf(mem, "h2"), t, k).res

C24_IterIsSnapshot ==
    iter.stage = "open" =>
        /\ iter.yielded \subseteq iter.atCall
        /\ iter.yielded \cup IterPairs(iter, mem) = iter.atCall

\* An iterator has yielded every pair of a table that held some when
\* get_iter was called and holds other pairs now.
C24_Witness ==
    /\ iter.stage = "open"
    /\ iter.atCall # {}
    /\ iter.yielded = iter.atCall
    /\ PairSet(TablesOf(mem, iter.h)[iter.table]) # iter.atCall
    /\ PairSet(TablesOf(mem, iter.h)[iter.table]) # {}

\* C25: on every logical stream the responses flushed are those of the
\* requests read, in the order the requests were read; when the loop is
\* about to read, every element of the responses to the requests read before
\* has been flushed; and a request is read only then.
C25_RequestsInOrder ==
    /\ [](\A s \in Streams :
            /\ Len(flushed[s]) <= nread[s]
            /\ nread[s] <= Len(flushed[s]) + 1
            /\ \A i \in 1..Len(flushed[s]) : flushed[s][i].n = i
            /\ pc[s] = "next" => (respq[s] = <<>> /\ Len(flushed[s]) = nread[s]))
    /\ [][\A s \in Streams :
            nread'[s] # nread[s] =>
                /\ respq[s] = <<>>
                /\ Len(flushed[s]) = nread[s]
                /\ nread'[s] = nread[s] + 1]_vars

\* The response to a request is about to be written while the next request
\* of the same stream is already waiting in the stream, unread.
C25_Witness ==
    \E s \in Streams :
        /\ pc[s] = "send"
        /\ respq[s] # <<>>
        /\ nread[s] = 1
        /\ flushed[s] = <<>>
        /\ Len(inb[s]) >= LENGTH_BYTES

\* C26: whatever failure one logical stream has had, the handler of every
\* other stream of the connection goes on: a stream whose own handler has
\* neither ended nor failed is still polled.
C26_FailureIsIsolated ==
    \A s \in Streams :
        pc[s] \notin {"done", "panicked"} => conn = "up"

\* C30: whenever a pull can start, read_buf is empty, and no pull has failed
\* the assertion at the top of poll_next.
C30_ReadBufEmpty ==
    \A s \in Streams :
        /\ lastPull[s].outcome # "panic"
        /\ pc[s] = "next" => read_buf[s] = <<>>

\* no subscribe or unsubscribe call is in progress
Quiescent == \A c \in Callers : call[c].pc = "idle"

\* C27: whenever no subscribe or unsubscribe call is in progress, every id
\* in the id-set of a topic is a key of the subscriptions map.
C27_IdSetsWithinSubscriptions ==
    Quiescent => \A name \in DOMAIN topics : topics[name] \subseteq subscriptions

\* C28: whenever no subscribe or unsubscribe call is in progress no topic
\* has an empty id-set; an unsubscribe takes the id out of the id-set of its
\* topic; and a topic is removed only when its id-set is empty.
C28_EmptyTopicsRemoved ==
    /\ [](Quiescent => \A name \in DOMAIN topics : topics[name] # {})
    /\ [][\A c \in Callers :
            (call[c].pc = "idle" /\ call'[c].pc \in {"unsub_topic", "unsub_subs"}) =>
                (call'[c].topic \in DOMAIN topics' =>
                    call'[c].id \notin topics'[call'[c].topic])]_vars
    /\ [][\A name \in DOMAIN topics :
            name \notin DOMAIN topics' => topics[name] = {}]_vars

\* C29: a publish task that finds no entry for its topic ends at once; the
\* step changes neither map and no queue, and its message is in no queue
\* afterwards.
C29_PublishUnknownTopicNoOp ==
    /\ [][\A p \in 1..Len(pub) :
            (pub[p].st = "spawned" /\ pub'[p].st # "spawned"
                /\ pub[p].topic \notin DOMAIN topics) =>
                /\ pub'[p].st = "done"
                /\ topics' = topics
                /\ subscriptions' = subscriptions
                /\ chan' = chan]_vars
    /\ [](\A p \in 1..Len(pub) :
            (pub[p].st = "done" /\ p \notin Range(snapSeq)) =>
                \A id \in IdRange : PubResponse(p) \notin Range(chan[id].log))

\* A publish to a topic without an entry has ended while another topic has a
\* subscriber with an open queue.
C29_Witness ==
    \E p \in 1..Len(pub) :
        /\ pub[p].st = "done"
        /\ p \notin Range(snapSeq)
        /\ pub[p].topic \notin DOMAIN topics
        /\ \E id \in subscriptions : chan[id].rx = "open"
        /\ DOMAIN topics # {}

\* C31: however the transport splits the inbound bytes, the items the pulls
\* yield are the messages whose frames the peer wrote, in order, each once;
\* and once every byte written has been delivered and taken, every message
\* written has been yielded.
C31_PullsYieldWrittenMessages ==
    /\ Len(pulled) <= Len(sentMsgs)
    /\ \A i \in 1..Len(pulled) :
          i <= Len(sentMsgs) => pulled[i].ok /\ pulled[i].msg = sentMsgs[i]
    /\ (wire = <<>> /\ inb["s1"] = <<>>) => Len(pulled) = Len(sentMsgs)

FlushCompleted == sinkLast.res.ready /\ sinkLast.res.item.ok

\* C32: whatever the underlying writes answer, a poll of flush hands the
\* stream the bytes of the write buffer from position `written` on, in
\* order and each once; written never exceeds the length of the write
\* buffer; and a flush that completes has handed over the buffer to its end
\* and leaves the write buffer empty and written = 0.
C32_FlushDrainsInOrder ==
    /\ wbWritten <= Len(write_buf)
    /\ sinkLast.op = "flush" =>
         LET upto == sinkLast.written + Len(sinkLast.out)
         IN  /\ upto <= Len(sinkLast.before)
             /\ sinkLast.out = SubSeq(sinkLast.before, sinkLast.written + 1, upto)
             /\ \/ write_buf = sinkLast.before /\ wbWritten = upto
                \/ write_buf = <<>> /\ wbWritten = 0 /\ upto = Len(sinkLast.before)
             /\ FlushCompleted =>
                  upto = Len(sinkLast.before) /\ write_buf = <<>> /\ wbWritten = 0

\* a flush completes that an earlier poll had left in the middle of the buffer
C32_Witness ==
    /\ sinkLast.op = "flush"
    /\ FlushCompleted
    /\ sinkLast.written > 0
    /\ sinkLast.written + Len(sinkLast.out) = Len(sinkLast.before)
    /\ Len(sinkLast.out) > 1

\* C33: the write half is shut down only by a poll of close whose flush has
\* handed over the write buffer to its end: when shutdown has been called no
\* byte of the write buffer is unwritten.
C33_ShutdownAfterDrain ==
    shutdown =>
        /\ sinkLast.op = "close"
        /\ sinkLast.written + Len(sinkLast.out) = Len(sinkLast.before)
        /\ write_buf = <<>>
        /\ wbWritten = 0

\* close shuts down at a later poll than its first, which had ended not
\* ready in the middle of the write buffer
C33_Witness ==
    /\ shutdown
    /\ sinkLast.polls = 2
    /\ sinkLast.written > 0
    /\ Len(sinkLast.out) > 1

\* C34: start_send appends the frame of the message to the write buffer and
\* leaves the bytes already there as they were.
C34_SendAppendsFrame ==
    (sinkLast.op = "send" /\ sinkLast.res.ok) =>
        write_buf = sinkLast.before \o FrameOf(sinkLast.msg)

\* the tasks that can still send on channel id have finished and the items
\* queued have been received
Drained(id) ==
    /\ chan[id].rx = "open"
    /\ chan[id].nread = Len(chan[id].log)
    /\ idTask[id] = "done"
    /\ \A p \in 1..Len(pub) : pub[p].st = "done"

ReadsOf(t) ==
    {[op |-> o, table |-> t, key |-> k] : o \in {"get", "contains"}, k \in SledKeys}
        \cup {[op |-> o, table |-> t] : o \in {"get_all", "get_iter"}}

\* C36: in both engines a set or del on one table leaves the result of get,
\* contains, get_all and get_iter on every other table as it was, and after
\* set(t, k, v) get_all(t) holds the pair with the key k as it was passed.
C36_TablesIsolated ==
    sledLast.op \in {"set", "del"} =>
        /\ \A t \in SledTables \ {sledLast.call.table} : \A r \in ReadsOf(t) :
              /\ SledStorageCall(sled, r).res = SledStorageCall(sledLast.sled, r).res
              /\ MemStorageCall(sledMem, r).res = MemStorageCall(sledLast.mem, r).res
        /\ sledLast.op = "set" =>
              LET c == sledLast.call
                  all == [op |-> "get_all", table |-> c.table]
              IN  /\ KvPair(c.key, c.value) \in SledStorageCall(sled, all).res
                  /\ KvPair(c.key, c.value) \in MemStorageCall(sledMem, all).res

\* no unsubscribe for id has been called
NotUnsubscribed(id) ==
    /\ \A t \in TopicNames : <<t, id>> \notin unsubDone
    /\ \A c \in Callers :
          call[c].pc \in {"unsub_topic", "unsub_subs"} => call[c].id # id

\* C37: under every interleaving, an id whose subscribe has returned (its
\* Sender is stored) and that has not been unsubscribed is in the id-set of
\* a topic, so that a publish on the topic finds it.
C37_SubscriptionNotLost ==
    \A id \in subscriptions :
        NotUnsubscribed(id) => \E t \in DOMAIN topics : id \in topics[t]

\* C38: while a publish task waits to enqueue on a full queue, a caller that
\* is idle can make its subscribe or unsubscribe call on the task's topic,
\* and an unsubscribe of the id the task is sending to can finish: the task
\* holds no guard those calls need.
C38_CallsProceedWhilePublishWaits ==
    \A p \in 1..Len(pub) :
        pub[p].st = "wait" =>
            \A c \in Callers :
                /\ (call[c].pc = "idle" /\ ncalls < MaxCalls) =>
                      ENABLED UnsubscribeEntry(c, pub[p].topic, pub[p].cur, "topic")
                /\ (call[c].pc = "idle" /\ ncalls < MaxCalls /\ Len(allocated) < MaxSubs) =>
                      ENABLED SubscribeEntry(c, pub[p].topic, "topic")
                /\ (call[c].pc = "unsub_subs" /\ call[c].id = pub[p].cur) =>
                      ENABLED UnsubscribeRemoveSub(c)

LinReturned == {i \in LinTasks : linTask[i].pc = "returned"}
LinQuiet == \A i \in LinTasks : linTask[i].pc \in {"idle", "returned"}

\* the orders of the calls that have returned in which a call that had
\* returned before another was made comes first
LinOrders ==
    {f \in [1..Cardinality(LinReturned) -> LinReturned] :
        /\ \A x, y \in DOMAIN f : x # y => f[x] # f[y]
        /\ \A x, y \in DOMAIN f : x < y => f[y] \notin linTask[f[x]].after}

\* the calls made one after the other in this order on the store tbl give
\* the responses the tasks got and end with the store as it is
RECURSIVE ReplayGives(_, _)
ReplayGives(order, tbl) ==
    IF order = <<>> THEN tbl = tables
    ELSE LET r == dispatch(linTask[Head(order)].req, tbl, <<>>)
         IN  /\ r.resp = linTask[Head(order)].resp
             /\ ReplayGives(Tail(order), r.tables)

\* the tasks that were answered v as the previous value
ReportedPrevious(v) ==
    {j \in LinReturned : /\ linTask[j].req.kind \in {"Hset", "Hdel"}
                         /\ linTask[j].resp = FromValue(v)}
IsCurrent(v) ==
    /\ "t1" \in DOMAIN tables
    /\ "k1" \in DOMAIN tables["t1"]
    /\ tables["t1"]["k1"] = v

\* C39: when the calls made through the clones have returned, their
\* responses are those of the calls made one at a time in some order that
\* keeps every call after the calls that had returned before it was made;
\* and each value written is either the value stored or was reported as the
\* previous value by exactly one write or delete.
C39_Linearizable ==
    LinQuiet =>
        /\ \E f \in LinOrders : ReplayGives(f, EmptyMap)
        /\ \A i \in LinReturned :
              linTask[i].req.kind = "Hset" =>
                  Cardinality(ReportedPrevious(Integer(i)))
                      + (IF IsCurrent(Integer(i)) THEN 1 ELSE 0) = 1

\* three calls that overlapped: two writes, one answered the value of the
\* other, and a delete answered the value of the second
C39_Witness ==
    /\ LinReturned = LinTasks
    /\ \A i \in LinTasks : linTask[i].after = {}
    /\ \E i, j, k \in LinTasks :
          /\ linTask[i].req.kind = "Hset" /\ linTask[j].req.kind = "Hset"
          /\ linTask[k].req.kind = "Hdel"
          /\ linTask[j].resp = FromValue(Integer(i))
          /\ linTask[k].resp = FromValue(Integer(j))

\* C40: StreamResult::new never panics: it returns Ok with id equal to the
\* Integer in values[0] when the first item is a response of status 200 with a
\* non-empty values list, and an Internal error for every other first item (a
\* status other than 200, no values, a first value that is not an Integer, a
\* stream error, the end of the stream); the items that follow are passed
\* through unchanged and in order
SrGoodFirst(stream) ==
    /\ Len(stream) > 0 /\ stream[1].ok /\ stream[1].resp.status = 200
    /\ stream[1].resp.values # <<>>
    /\ stream[1].resp.values[1].t = "int"
C40_NewNeverPanics ==
    sres.called =>
        /\ sres.result.kind # "panic"
        /\ IF SrGoodFirst(sres.stream)
           THEN /\ sres.result.kind = "ok"
                /\ sres.result.id = sres.stream[1].resp.values[1].v
                /\ sres.got \o sres.result.inner = Tail(sres.stream)
           ELSE sres.result.kind = "err"

====
